---- MODULE Spec2Model ----
(***************************************************************************)
(* WellSync AI: the Coordination & Recovery-Prioritization engine.         *)
(*                                                                         *)
(* One run of CoordinatorAgent.coordinate_agent_proposals is modelled as a *)
(* sequence of steps (pc) over the proposal dictionaries it mutates in     *)
(* place.  Units: every confidence and budget_utilization is an integer    *)
(* number of hundredths (0.1 = 10); the 0-100 energy scores are integers   *)
(* in tenths (70.0 = 700), the sustainability score in thousandths.        *)
(* A Python dict whose values matter only as flags is a set of             *)
(* <<key, value>> pairs; an absent key of a proposal is the value Missing. *)
(* Fields the coordinator never reads (overtraining_risk,                  *)
(* sleep_quality_target, constraints_used, dependencies) are left out.     *)
(***************************************************************************)
EXTENDS Integers, Sequences, FiniteSets, TLC

VARIABLES
    pc,                 \* position inside coordinate_agent_proposals
    agent_proposals,    \* the caller's dict, mutated in place
    input_proposals,    \* the dict as the caller passed it (history)
    validated,          \* the proposals right after validation (history)
    user_constraints,   \* constraints map
    user_data,          \* shared_state['user_profile']
    validation_results,
    energy_balance,
    energy_conflicts,
    recovery_priority,
    conflicts,          \* list returned by _detect_conflicts
    pending,            \* prioritized conflicts not yet resolved
    resolved_conflicts, \* list built by _resolve_conflicts_with_optimization
    stages,             \* history: the steps of the call that have run
    exception,          \* message of the exception caught by the call, if any
    working_memory,     \* the coordinator's working memory, kept between calls
    previous_results,   \* history: results of the earlier calls on the same input
    result,             \* value returned to the caller
    wf_pc,              \* position inside WellnessWorkflowOrchestrator.execute_workflow
    self_agents,        \* self.agents of the orchestrator: the kind of object per name
    cache_backend,      \* what CacheManager._initialize ended up with
    cache,              \* per agent key: the entry of redis / local_cache
    results,            \* per queued agent: what _execute_single_agent returned
    produced,           \* history: what the producer returned when the entry was stored
    executed,           \* history: how process_wellness_request ended in the current run
    runs,               \* history: number of execute_workflow calls started
    workflow_result     \* outcome of the last execute_workflow call

\* the state of the orchestrator and of its cache
orchestrator_vars == <<wf_pc, self_agents, cache_backend, cache, results, produced, executed, runs,
                       workflow_result>>

vars == <<pc, agent_proposals, input_proposals, validated, user_constraints,
          user_data, validation_results, energy_balance, energy_conflicts,
          recovery_priority, conflicts, pending, resolved_conflicts, stages,
          exception, working_memory, previous_results, result, wf_pc, self_agents,
          cache_backend, cache, results, produced, executed, runs, workflow_result>>

-----------------------------------------------------------------------------
(* Bounds of the model *)

\* largest wall-clock time, in ms, that the resolution loop is observed to take
MaxElapsedMs == 1

\* number of calls made on equal inputs when calls are compared
MaxCalls == 2

\* longest list of resolved conflicts of any type given to the score
MaxMixedResolved == 3

\* longest list of resolved recovery and energy conflicts given to the score
MaxMajorResolved == 11

-----------------------------------------------------------------------------
(* Generic helpers *)

Max(a, b) == IF a >= b THEN a ELSE b
Min(a, b) == IF a <= b THEN a ELSE b

Missing == "MISSING"

\* dict.get(key, default) on a string-valued key
Get(v, default) == IF v = Missing THEN default ELSE v

\* d[key] = value on a dict of flags
Put(d, k, v) == {p \in d : p[1] # k} \cup {<<k, v>>}

\* d.get(key, default) on a dict of flags
Lookup(d, k, default) ==
    IF \E p \in d : p[1] = k THEN (CHOOSE p \in d : p[1] = k)[2] ELSE default

NoNum == [kind |-> "missing", val |-> 0]
Num(n) == [kind |-> "num", val |-> n]
Str == [kind |-> "str", val |-> 0]

NoPlan == [has |-> FALSE, base |-> "none", d |-> {}]
NoDict == [has |-> FALSE, d |-> {}]

RECURSIVE SumSeq(_)
SumSeq(s) == IF s = <<>> THEN 0 ELSE Head(s) + SumSeq(Tail(s))

-----------------------------------------------------------------------------
(* Proposals *)

expected_agents == <<"FitnessAgent", "NutritionAgent", "SleepAgent", "MentalWellnessAgent">>

AgentSet == {expected_agents[i] : i \in 1..Len(expected_agents)}

\* a proposal dict with no key at all
EmptyProposal ==
    [present |-> TRUE, confidence |-> NoNum, reasoning |-> Missing,
     energy_demand |-> Missing, training_load_score |-> NoNum, workout_plan |-> NoPlan,
     nutritional_adequacy |-> Missing, budget_utilization |-> NoNum, meal_plan |-> NoPlan,
     recovery_status |-> Missing, sleep_recommendations |-> NoPlan,
     constraints_for_others |-> NoDict,
     motivation_level |-> Missing, wellness_recommendations |-> NoPlan,
     complexity_adjustments |-> NoDict,
     adequacy_priority |-> Missing, priority_adjustment |-> Missing,
     conflict_resolution_applied |-> Missing, modification_reason |-> Missing,
     is_error |-> FALSE, error |-> Missing]

\* the agent's name is not a key of agent_proposals
AbsentProposal == [EmptyProposal EXCEPT !.present = FALSE]

\* content of the plan dicts the model distinguishes:
\*   "empty"   {}
\*   "default" the sample plan of agent_defaults (sessions carry 'duration',
\*             no weekly_schedule, no total_prep_time_minutes, no complexity)
\*   "busy"    a producer's plan with complexity 'high' and time demands
\*   "full"    a producer's workout plan whose weekly_schedule adds up to 600 minutes
PlanIsEmptyDict(plan) == plan.base = "empty" /\ plan.d = {}

\* truthiness of proposal.get(<plan>, {})
Truthy(plan) == plan.has /\ ~PlanIsEmptyDict(plan)

\* plan.get('complexity', 'medium')
PlanComplexity(plan) == IF plan.has /\ plan.base = "busy" THEN "high" ELSE "medium"

\* sum of session.get('duration_minutes', 0) over workout_plan.get('weekly_schedule', [])
WeeklyScheduleMinutes(plan) ==
    IF plan.has /\ plan.base = "busy" THEN SumSeq(<<220, 220, 210>>)
    ELSE IF plan.has /\ plan.base = "full" THEN SumSeq(<<200, 200, 200>>)
    ELSE 0

\* meal_plan.get('total_prep_time_minutes', 0)
PrepTimeMinutes(plan) == IF plan.has /\ plan.base = "busy" THEN 90 ELSE 0

DefaultPlan == [has |-> TRUE, base |-> "default", d |-> {}]

-----------------------------------------------------------------------------
(* ProposalValidator: _validate_single_agent_proposal, _validate_all_proposals *)

\* the validator without its clamp
ValidateConfidence_NoClamp(c) ==
    IF c.kind = "missing" THEN Num(50)
    ELSE IF c.kind # "num" THEN Num(50)
    ELSE c

ValidateConfidence(c) ==
    IF c.kind = "missing" THEN Num(50)
    ELSE IF c.kind # "num" THEN Num(50)
    ELSE IF ~(0 <= c.val /\ c.val <= 100) THEN Num(Max(0, Min(100, c.val)))
    ELSE c

DefaultStr(v, default) == IF v = Missing THEN default ELSE v
DefaultNum(v, default) == IF v.kind = "missing" THEN Num(default) ELSE v
DefaultPlanIfMissing(plan) == IF plan.has THEN plan ELSE DefaultPlan

\* agent_defaults[agent_name], applied to the keys the proposal lacks
\* the validator's defaults with a Fitness training_load_score of 85
AgentDefaults_HeavyTraining(agent_name, p) ==
    IF agent_name = "FitnessAgent" THEN
        [p EXCEPT !.workout_plan = DefaultPlanIfMissing(@),
                  !.energy_demand = DefaultStr(@, "medium"),
                  !.training_load_score = DefaultNum(@, 85)]
    ELSE IF agent_name = "NutritionAgent" THEN
        [p EXCEPT !.meal_plan = DefaultPlanIfMissing(@),
                  !.nutritional_adequacy = DefaultStr(@, "high"),
                  !.budget_utilization = DefaultNum(@, 75)]
    ELSE IF agent_name = "SleepAgent" THEN
        [p EXCEPT !.sleep_recommendations = DefaultPlanIfMissing(@),
                  !.recovery_status = DefaultStr(@, "good")]
    ELSE IF agent_name = "MentalWellnessAgent" THEN
        [p EXCEPT !.wellness_recommendations = DefaultPlanIfMissing(@),
                  !.motivation_level = DefaultStr(@, "medium"),
                  !.complexity_adjustments =
                      IF @.has THEN @
                      ELSE [has |-> TRUE, d |-> {<<"simplification_needed", "False">>}]]
    ELSE p

AgentDefaults(agent_name, p) ==
    IF agent_name = "FitnessAgent" THEN
        [p EXCEPT !.workout_plan = DefaultPlanIfMissing(@),
                  !.energy_demand = DefaultStr(@, "medium"),
                  !.training_load_score = DefaultNum(@, 55)]
    ELSE IF agent_name = "NutritionAgent" THEN
        [p EXCEPT !.meal_plan = DefaultPlanIfMissing(@),
                  !.nutritional_adequacy = DefaultStr(@, "high"),
                  !.budget_utilization = DefaultNum(@, 75)]
    ELSE IF agent_name = "SleepAgent" THEN
        [p EXCEPT !.sleep_recommendations = DefaultPlanIfMissing(@),
                  !.recovery_status = DefaultStr(@, "good")]
    ELSE IF agent_name = "MentalWellnessAgent" THEN
        [p EXCEPT !.wellness_recommendations = DefaultPlanIfMissing(@),
                  !.motivation_level = DefaultStr(@, "medium"),
                  !.complexity_adjustments =
                      IF @.has THEN @
                      ELSE [has |-> TRUE, d |-> {<<"simplification_needed", "False">>}]]
    ELSE p

\* the proposal as _validate_single_agent_proposal leaves it
ValidatedProposal(agent_name, p) ==
    AgentDefaults(agent_name,
        [p EXCEPT !.confidence = ValidateConfidence(@),
                  !.reasoning = DefaultStr(@, "Generated by wellness agent")])

\* the validation record it returns: no check ever clears 'valid'
ValidateSingleAgentProposal(agent_name, p) == [valid |-> TRUE]

\* expected agents that are not keys of the dict, in expected order
MissingAgents(props) ==
    SelectSeq(expected_agents, LAMBDA a : ~props[a].present)

InvalidProposals(props) ==
    SelectSeq(expected_agents,
              LAMBDA a : props[a].present /\ ~ValidateSingleAgentProposal(a, props[a]).valid)

\* the loop over agent_proposals.items() validates (and mutates) every proposal present
ValidatedAll(props) ==
    [a \in AgentSet |-> IF props[a].present THEN ValidatedProposal(a, props[a]) ELSE props[a]]

\* the validator that records missing agents without failing the validation
ValidateAllProposals_MissingStaysValid(props) ==
    [all_valid |-> InvalidProposals(props) = <<>>,
     missing_agents |-> MissingAgents(props),
     invalid_proposals |-> InvalidProposals(props)]

ValidateAllProposals(props) ==
    [all_valid |-> MissingAgents(props) = <<>> /\ InvalidProposals(props) = <<>>,
     missing_agents |-> MissingAgents(props),
     invalid_proposals |-> InvalidProposals(props)]

-----------------------------------------------------------------------------
(* EnergyBalanceAssessor: RecoveryPrioritizationEngine.assess_energy_balance *)

recovery_critical_threshold == 300    \* 30, in tenths
overtraining_threshold == 80
stress_overload_threshold == 750      \* 75, in tenths

NoStress == [work_stress_level |-> 0, life_stress_level |-> 0, health_concerns |-> FALSE,
             relationship_stress |-> 0, financial_stress |-> 0]

\* arithmetic on a value that is not a number raises TypeError
RaisesTypeError(p) == p.training_load_score.kind = "str"

\* 0-100 score, in tenths
CalculateEnergyDemand(fitness_proposal) ==
    LET energy_demand_str == Get(fitness_proposal.energy_demand, "medium")
        base_demand == IF energy_demand_str = "low" THEN 30
                       ELSE IF energy_demand_str = "high" THEN 90
                       ELSE 60
        training_load == IF fitness_proposal.training_load_score.kind = "missing" THEN 50
                         ELSE fitness_proposal.training_load_score.val
        adjustment == (training_load - 50) * 4
    IN  Max(0, Min(1000, base_demand * 10 + adjustment))

RecoveryStatusScore(status, poor, fair, good, excellent) ==
    IF status = "poor" THEN poor
    ELSE IF status = "good" THEN good
    ELSE IF status = "excellent" THEN excellent
    ELSE fair

CalculateEnergyAvailability(nutrition_proposal, sleep_proposal) ==
    LET nutrition_adequacy == Get(nutrition_proposal.nutritional_adequacy, "medium")
        nutrition_score == IF nutrition_adequacy = "low" THEN 20
                           ELSE IF nutrition_adequacy = "high" THEN 90
                           ELSE 60
        sleep_score == RecoveryStatusScore(Get(sleep_proposal.recovery_status, "fair"), 20, 50, 80, 95)
    IN  Max(0, Min(1000, nutrition_score * 6 + sleep_score * 4))

\* the last seven entries of a list
LastSeven(s) == IF Len(s) <= 7 THEN s ELSE SubSeq(s, Len(s) - 6, Len(s))

\* accumulated sleep debt against the 8-hour target, in whole hours
CalculateSleepDebt(ud) ==
    LET recent == LastSeven(ud.daily_hours)
    IN  SumSeq([i \in 1..Len(recent) |-> IF recent[i] < 8 THEN 8 - recent[i] ELSE 0])

\* in tenths of a point; life stress counts 1.5 per level
CalculateStressPenalty(si) ==
    Min(si.work_stress_level * 20 + si.life_stress_level * 15
            + (IF si.health_concerns THEN 100 ELSE 0),
        400)

CalculateExternalStress(si) ==
    Min(si.work_stress_level * 30 + si.relationship_stress * 20 + si.financial_stress * 25, 600)

CalculateRecoveryCapacity(sleep_proposal, ud) ==
    LET base_recovery == RecoveryStatusScore(Get(sleep_proposal.recovery_status, "fair"), 25, 50, 75, 95)
        sleep_debt_penalty == Min(300, CalculateSleepDebt(ud) * 100)
        stress_penalty == CalculateStressPenalty(ud.stress_indicators)
    IN  Max(0, Min(1000, base_recovery * 10 - sleep_debt_penalty - stress_penalty))

CalculateStressLoad(mental_wellness_proposal, ud) ==
    LET motivation_level == Get(mental_wellness_proposal.motivation_level, "medium")
        base_stress == IF motivation_level = "low" THEN 70
                       ELSE IF motivation_level = "high" THEN 20
                       ELSE 40
    IN  Max(0, Min(1000, base_stress * 10 + CalculateExternalStress(ud.stress_indicators)))

\* in thousandths: 0.4, 0.35 and 0.25 of three scores given in tenths
CalculateSustainabilityScore(demand, availability, capacity, stress) ==
    LET balance_factor == Max(0, Min(1000, 500 + (availability - demand)))
        stress_factor == 1000 - stress
    IN  Max(0, Min(100000, balance_factor * 40 + capacity * 35 + stress_factor * 25))

\* the status with a deficit only when both the balance and the capacity are low
DetermineBalanceStatus_BothLow(demand, availability, capacity) ==
    LET balance == availability - demand
    IN  IF balance < -200 /\ capacity < recovery_critical_threshold THEN "deficit"
        ELSE IF balance > 200 /\ capacity > 700 THEN "surplus"
        ELSE "balanced"

DetermineBalanceStatus(demand, availability, capacity) ==
    LET balance == availability - demand
    IN  IF balance < -200 \/ capacity < recovery_critical_threshold THEN "deficit"
        ELSE IF balance > 200 /\ capacity > 700 THEN "surplus"
        ELSE "balanced"

AssessEnergyBalance(props, ud) ==
    LET demand == CalculateEnergyDemand(props["FitnessAgent"])
        availability == CalculateEnergyAvailability(props["NutritionAgent"], props["SleepAgent"])
        capacity == CalculateRecoveryCapacity(props["SleepAgent"], ud)
        stress == CalculateStressLoad(props["MentalWellnessAgent"], ud)
    IN  [energy_demand |-> demand,
         energy_availability |-> availability,
         recovery_capacity |-> capacity,
         stress_load |-> stress,
         sustainability_score |-> CalculateSustainabilityScore(demand, availability, capacity, stress),
         balance_status |-> DetermineBalanceStatus(demand, availability, capacity)]

NoEnergyBalance ==
    [energy_demand |-> 0, energy_availability |-> 0, recovery_capacity |-> 0, stress_load |-> 0,
     sustainability_score |-> 0, balance_status |-> "none"]

GetNutritionAdequacy(nutrition_proposal) ==
    LET adequacy == Get(nutrition_proposal.nutritional_adequacy, "medium")
    IN  IF adequacy = "low" THEN 30 ELSE IF adequacy = "high" THEN 90 ELSE 65

GetTrainingLoad(fitness_proposal) ==
    IF fitness_proposal.training_load_score.kind = "missing" THEN 50
    ELSE fitness_proposal.training_load_score.val

\* the first five rules of detect_energy_conflicts, in the order they are appended
BaseEnergyConflicts(eb, props, ud) ==
    (IF eb.energy_demand > 700 /\ eb.recovery_capacity < recovery_critical_threshold
        THEN <<"high_demand_low_recovery">> ELSE <<>>)
    \o (IF eb.energy_demand > 600 /\ GetNutritionAdequacy(props["NutritionAgent"]) < 50
        THEN <<"insufficient_nutrition">> ELSE <<>>)
    \o (IF CalculateSleepDebt(ud) > 2 THEN <<"sleep_debt_accumulation">> ELSE <<>>)
    \o (IF GetTrainingLoad(props["FitnessAgent"]) > overtraining_threshold
        THEN <<"overtraining_risk">> ELSE <<>>)
    \o (IF eb.stress_load > stress_overload_threshold THEN <<"stress_overload">> ELSE <<>>)

DetectEnergyConflicts(eb, props, ud) ==
    LET found == BaseEnergyConflicts(eb, props, ud)
    IN  IF Len(found) >= 2 THEN Append(found, "multiple_stressors") ELSE found

Range(s) == {s[i] : i \in 1..Len(s)}

-----------------------------------------------------------------------------
(* RecoveryPrioritizer: RecoveryPrioritizationEngine.prioritize_recovery *)

\* the priority table with a non-strict comparison in the recovery-capacity rule
DeterminePriorityLevel_CapacityAtMost25(ec, eb) ==
    IF \/ "multiple_stressors" \in Range(ec)
       \/ eb.recovery_capacity <= 250
       \/ eb.sustainability_score < 30000
    THEN "critical"
    ELSE IF \/ Len(ec) >= 2
            \/ "high_demand_low_recovery" \in Range(ec)
            \/ "overtraining_risk" \in Range(ec)
            \/ eb.balance_status = "deficit"
    THEN "high"
    ELSE IF \/ Len(ec) = 1
            \/ eb.recovery_capacity < 500
            \/ eb.sustainability_score < 60000
    THEN "medium"
    ELSE "low"

DeterminePriorityLevel(ec, eb) ==
    IF \/ "multiple_stressors" \in Range(ec)
       \/ eb.recovery_capacity < 250
       \/ eb.sustainability_score < 30000
    THEN "critical"
    ELSE IF \/ Len(ec) >= 2
            \/ "high_demand_low_recovery" \in Range(ec)
            \/ "overtraining_risk" \in Range(ec)
            \/ eb.balance_status = "deficit"
    THEN "high"
    ELSE IF \/ Len(ec) = 1
            \/ eb.recovery_capacity < 500
            \/ eb.sustainability_score < 60000
    THEN "medium"
    ELSE "low"

IdentifyAffectedDomains(ec) ==
    {"sleep"}
    \cup (IF Range(ec) \cap {"high_demand_low_recovery", "overtraining_risk", "multiple_stressors"} # {}
          THEN {"fitness"} ELSE {})
    \cup (IF Range(ec) \cap {"insufficient_nutrition", "high_demand_low_recovery"} # {}
          THEN {"nutrition"} ELSE {})
    \cup (IF Range(ec) \cap {"stress_overload", "multiple_stressors"} # {}
          THEN {"mental_wellness"} ELSE {})

SleepInterventions ==
    <<"Prioritize sleep duration (aim for 8+ hours nightly)",
      "Implement consistent sleep schedule",
      "Optimize sleep environment for quality">>

StressInterventions ==
    <<"Implement stress reduction techniques",
      "Simplify wellness plan complexity",
      "Consider meditation or relaxation practices">>

GenerateRecoveryInterventions(ec, eb) ==
    (IF "sleep_debt_accumulation" \in Range(ec) \/ eb.recovery_capacity < 400
        THEN SleepInterventions ELSE <<>>)
    \o (IF "high_demand_low_recovery" \in Range(ec) \/ "overtraining_risk" \in Range(ec)
        THEN <<"Reduce training intensity by 20-30%",
               "Add extra rest day between intense sessions",
               "Focus on active recovery activities">> ELSE <<>>)
    \o (IF "insufficient_nutrition" \in Range(ec)
        THEN <<"Increase caloric intake to match energy demands",
               "Optimize pre/post workout nutrition timing",
               "Ensure adequate protein for recovery">> ELSE <<>>)
    \o (IF "stress_overload" \in Range(ec) \/ eb.stress_load > 700
        THEN StressInterventions ELSE <<>>)
    \o (IF "multiple_stressors" \in Range(ec)
        THEN <<"Implement comprehensive recovery protocol",
               "Temporarily reduce all wellness demands",
               "Focus on basic health maintenance only">> ELSE <<>>)

IdentifyRecoveryTradeOffs(ec, interventions, props) ==
    (IF props["FitnessAgent"].energy_demand = "high"
        THEN <<"Reduced fitness intensity for recovery prioritization",
               "Delayed fitness progression to ensure sustainability">> ELSE <<>>)
    \o (IF props["NutritionAgent"].budget_utilization.kind = "num"
           /\ props["NutritionAgent"].budget_utilization.val > 80
        THEN <<"May require increased food budget for adequate nutrition">> ELSE <<>>)
    \* "sleep duration" occurs only in the first sleep intervention
    \o (IF SleepInterventions[1] \in Range(interventions)
        THEN <<"Increased sleep time may reduce available time for other activities">> ELSE <<>>)
    \* "simplify" occurs only in the second stress intervention
    \o (IF StressInterventions[2] \in Range(interventions)
        THEN <<"Simplified plans may progress more slowly toward goals">> ELSE <<>>)
    \o (IF Len(ec) >= 2
        THEN <<"Extended timeline for achieving wellness goals",
               "Focus on sustainability over aggressive optimization">> ELSE <<>>)

DetermineRecoveryTimeline(priority_level) ==
    IF priority_level = "critical" THEN "immediate"
    ELSE IF priority_level = "high" THEN "short_term"
    ELSE IF priority_level = "medium" THEN "medium_term"
    ELSE "ongoing"

\* in hundredths
CalculateRecoveryConfidence(eb, conflict_count, interventions) ==
    LET conflict_penalty == Min(30, conflict_count * 10)
        balance_penalty == IF eb.balance_status = "deficit" THEN 10 ELSE 0
        intervention_bonus == Min(20, Len(interventions) * 2)
    IN  Max(30, Min(100, 80 - conflict_penalty - balance_penalty + intervention_bonus))

PrioritizeRecovery(ec, eb, props) ==
    LET priority_level == DeterminePriorityLevel(ec, eb)
        interventions == GenerateRecoveryInterventions(ec, eb)
    IN  [isNone |-> FALSE,
         priority_level |-> priority_level,
         affected_domains |-> IdentifyAffectedDomains(ec),
         interventions |-> interventions,
         trade_offs |-> IdentifyRecoveryTradeOffs(ec, interventions, props),
         timeline |-> DetermineRecoveryTimeline(priority_level),
         confidence |-> CalculateRecoveryConfidence(eb, Len(ec), interventions)]

\* recovery_priority = None
NoRecoveryPriority ==
    [isNone |-> TRUE, priority_level |-> "none", affected_domains |-> {}, interventions |-> <<>>,
     trade_offs |-> <<>>, timeline |-> "none", confidence |-> 0]

-----------------------------------------------------------------------------
(* CoordinatorAgent._apply_recovery_prioritization *)

PutAll(plan, pairs) ==
    [plan EXCEPT !.d = {p \in @ : \A q \in pairs : q[1] # p[1]} \cup pairs]

ApplyRecoveryFitness(fp, rp) ==
    LET current_demand == Get(fp.energy_demand, "medium")
    IN  [fp EXCEPT
            !.energy_demand = IF current_demand = "high" THEN "medium"
                              ELSE IF current_demand = "medium" THEN "low"
                              ELSE @,
            !.workout_plan = IF Truthy(@)
                             THEN PutAll(@, {<<"recovery_prioritization", "True">>,
                                             <<"intensity_reduction", "recovery_focused">>,
                                             <<"modification_reason",
                                               IF rp.priority_level = "critical"
                                               THEN "Recovery prioritization: critical"
                                               ELSE "Recovery prioritization: high">>})
                             ELSE @,
            !.confidence = Num(Max(30, (IF @.kind = "num" THEN @.val ELSE 50) - 10))]

ApplyRecoverySleep(sp, rp) ==
    [sp EXCEPT
        !.sleep_recommendations =
            IF @.has THEN PutAll(@, {<<"recovery_prioritization", "True">>,
                                     <<"priority_level", rp.priority_level>>})
            ELSE @,
        !.constraints_for_others =
            [has |-> TRUE,
             d |-> Put(Put(@.d, "recovery_priority", rp.priority_level),
                       "max_training_intensity",
                       IF rp.priority_level = "critical" THEN "medium" ELSE "moderate")]]

ApplyRecoveryNutrition(np, rp) ==
    [np EXCEPT
        !.meal_plan = IF Truthy(@)
                      THEN PutAll(@, {<<"recovery_optimization", "True">>,
                                      <<"focus", "recovery_and_energy_availability">>})
                      ELSE @,
        !.adequacy_priority = IF np.nutritional_adequacy = "low" THEN "critical" ELSE @]

ApplyRecoveryMental(mp, rp) ==
    [mp EXCEPT
        !.wellness_recommendations =
            IF @.has THEN PutAll(@, {<<"complexity_reduction", "True">>,
                                     <<"focus", "stress_reduction_and_recovery">>})
            ELSE @,
        !.complexity_adjustments =
            [has |-> TRUE,
             d |-> Put(Put(@.d, "simplification_needed", "True"),
                       "reason", "recovery_prioritization")]]

\* a proposal dict is falsy only when it has no key; validated proposals never are
ApplyRecoveryPrioritization(props, rp) ==
    IF rp.priority_level \in {"critical", "high"} THEN
        [a \in AgentSet |->
            IF a = "FitnessAgent" /\ "fitness" \in rp.affected_domains /\ props[a].present
                THEN ApplyRecoveryFitness(props[a], rp)
            ELSE IF a = "SleepAgent" /\ "sleep" \in rp.affected_domains /\ props[a].present
                THEN ApplyRecoverySleep(props[a], rp)
            ELSE IF a = "NutritionAgent" /\ "nutrition" \in rp.affected_domains /\ props[a].present
                THEN ApplyRecoveryNutrition(props[a], rp)
            ELSE IF a = "MentalWellnessAgent" /\ "mental_wellness" \in rp.affected_domains
                    /\ props[a].present
                THEN ApplyRecoveryMental(props[a], rp)
            ELSE props[a]]
    ELSE props

-----------------------------------------------------------------------------
(* ConflictDetector: CoordinatorAgent._detect_conflicts and its six rules.   *)
(* A ConflictResolution is a record; its 'reasoning' text is left out.       *)

Conflict(type, agents, strategy, impact) ==
    [conflict_type |-> type, affected_agents |-> agents, resolution_strategy |-> strategy,
     trade_offs_made |-> <<>>, confidence_impact |-> impact]

\* each rule returns the list of the conflicts it found: empty (None) or one record

DetectEnergyConflict(props) ==
    LET fitness_energy_demand == Get(props["FitnessAgent"].energy_demand, "medium")
        nutrition_adequacy == Get(props["NutritionAgent"].nutritional_adequacy, "medium")
        recovery_status == Get(props["SleepAgent"].recovery_status, "fair")
    IN  IF fitness_energy_demand = "high"
           /\ (nutrition_adequacy = "low" \/ recovery_status \in {"poor", "fair"})
        THEN <<Conflict("energy_conflict", <<"FitnessAgent", "NutritionAgent", "SleepAgent">>,
                        "reduce_fitness_intensity_or_improve_nutrition_recovery", -10)>>
        ELSE <<>>

MaxWeeklyMinutes(constraints) ==
    IF constraints.max_weekly_minutes.kind = "missing" THEN 600
    ELSE constraints.max_weekly_minutes.val

FitnessMinutes(props) ==
    IF Truthy(props["FitnessAgent"].workout_plan)
    THEN WeeklyScheduleMinutes(props["FitnessAgent"].workout_plan) ELSE 0

NutritionMinutes(props) ==
    IF Truthy(props["NutritionAgent"].meal_plan)
    THEN PrepTimeMinutes(props["NutritionAgent"].meal_plan) ELSE 0

\* the time rule with a non-strict comparison
DetectTimeConflict_NotStrict(props, constraints) ==
    LET total_time_needed == FitnessMinutes(props) + NutritionMinutes(props)
        time_demanding_agents ==
            (IF FitnessMinutes(props) > 0 THEN <<"FitnessAgent">> ELSE <<>>)
            \o (IF NutritionMinutes(props) > 0 THEN <<"NutritionAgent">> ELSE <<>>)
    IN  IF total_time_needed >= MaxWeeklyMinutes(constraints)
        THEN <<Conflict("time_conflict", time_demanding_agents,
                        "reduce_time_demands_or_increase_efficiency", -15)>>
        ELSE <<>>

DetectTimeConflict(props, constraints) ==
    LET total_time_needed == FitnessMinutes(props) + NutritionMinutes(props)
        time_demanding_agents ==
            (IF FitnessMinutes(props) > 0 THEN <<"FitnessAgent">> ELSE <<>>)
            \o (IF NutritionMinutes(props) > 0 THEN <<"NutritionAgent">> ELSE <<>>)
    IN  IF total_time_needed > MaxWeeklyMinutes(constraints)
        THEN <<Conflict("time_conflict", time_demanding_agents,
                        "reduce_time_demands_or_increase_efficiency", -15)>>
        ELSE <<>>

BudgetUtilization(np, default) ==
    IF np.budget_utilization.kind = "missing" THEN default ELSE np.budget_utilization.val

DetectBudgetConflict(props) ==
    IF BudgetUtilization(props["NutritionAgent"], 0) > 90
    THEN <<Conflict("budget_conflict", <<"NutritionAgent">>,
                    "optimize_nutrition_costs_or_adjust_goals", -10)>>
    ELSE <<>>

DetectRecoveryConflict(props) ==
    IF Get(props["SleepAgent"].recovery_status, "fair") = "poor"
       /\ Get(props["FitnessAgent"].energy_demand, "medium") = "high"
    THEN <<Conflict("recovery_conflict", <<"FitnessAgent", "SleepAgent">>,
                    "prioritize_recovery_reduce_training_intensity", -20)>>
    ELSE <<>>

DetectNutritionalConflict(props) ==
    IF Get(props["NutritionAgent"].nutritional_adequacy, "medium") = "low"
       /\ Get(props["FitnessAgent"].energy_demand, "medium") = "high"
    THEN <<Conflict("nutritional_conflict", <<"NutritionAgent", "FitnessAgent">>,
                    "improve_nutrition_or_reduce_fitness_demands", -15)>>
    ELSE <<>>

DetectMotivationConflict(props) ==
    LET mw == props["MentalWellnessAgent"]
        affected == (IF PlanComplexity(props["FitnessAgent"].workout_plan) = "high"
                        THEN <<"FitnessAgent">> ELSE <<>>)
                    \o (IF PlanComplexity(props["NutritionAgent"].meal_plan) = "high"
                        THEN <<"NutritionAgent">> ELSE <<>>)
    IN  IF Get(mw.motivation_level, "medium") = "low"
           /\ Lookup(mw.complexity_adjustments.d, "simplification_needed", "False") = "True"
           /\ affected # <<>>
        THEN <<Conflict("motivation_conflict", Append(affected, "MentalWellnessAgent"),
                        "simplify_plans_to_match_motivation_capacity", -10)>>
        ELSE <<>>

DetectConflicts(props, constraints) ==
    DetectEnergyConflict(props)
    \o DetectTimeConflict(props, constraints)
    \o DetectBudgetConflict(props)
    \o DetectRecoveryConflict(props)
    \o DetectNutritionalConflict(props)
    \o DetectMotivationConflict(props)

ConflictTypes(cs) == [i \in 1..Len(cs) |-> cs[i].conflict_type]

-----------------------------------------------------------------------------
(* ConflictResolver *)

\* the priority table replaced by the order in which the detector emits the conflicts
PriorityOrder_DetectionOrder(type) ==
    IF type = "energy_conflict" THEN 1
    ELSE IF type = "time_conflict" THEN 2
    ELSE IF type = "budget_conflict" THEN 3
    ELSE IF type = "recovery_conflict" THEN 4
    ELSE IF type = "nutritional_conflict" THEN 5
    ELSE IF type = "motivation_conflict" THEN 6
    ELSE 10

PriorityOrder(type) ==
    IF type = "recovery_conflict" THEN 1
    ELSE IF type = "energy_conflict" THEN 2
    ELSE IF type = "time_conflict" THEN 3
    ELSE IF type = "budget_conflict" THEN 4
    ELSE IF type = "nutritional_conflict" THEN 5
    ELSE IF type = "motivation_conflict" THEN 6
    ELSE 10

\* sorted(conflicts, key=priority_order): a stable sort
RECURSIVE PrioritizeConflicts(_)
PrioritizeConflicts(cs) ==
    IF cs = <<>> THEN <<>>
    ELSE LET least == CHOOSE i \in 1..Len(cs) :
                        \A j \in 1..Len(cs) :
                            \/ PriorityOrder(cs[i].conflict_type) < PriorityOrder(cs[j].conflict_type)
                            \/ /\ PriorityOrder(cs[i].conflict_type) = PriorityOrder(cs[j].conflict_type)
                               /\ i <= j
             rest == [k \in 1..(Len(cs) - 1) |-> IF k < least THEN cs[k] ELSE cs[k + 1]]
         IN  <<cs[least]>> \o PrioritizeConflicts(rest)

Resolved(conflict, strategy, trade_offs, impact) ==
    [conflict EXCEPT !.resolution_strategy = strategy,
                     !.trade_offs_made = trade_offs,
                     !.confidence_impact = impact]

\* every resolver returns the resolved conflict and the proposals as it leaves them

ResolveRecoveryConflict(conflict, props) ==
    LET fp == props["FitnessAgent"]
        lowers == fp.energy_demand = "high"
    IN  [conflict |-> Resolved(conflict, "prioritize_recovery_reduce_training_intensity",
                               IF lowers
                               THEN <<"Reduced fitness intensity from high to medium for recovery">>
                               ELSE <<>>,
                               -10),
         props |-> IF lowers
                   THEN [props EXCEPT !["FitnessAgent"] =
                            [fp EXCEPT !.energy_demand = "medium",
                                       !.workout_plan =
                                           IF Truthy(@)
                                           THEN PutAll(@, {<<"intensity_adjustment", "reduced_for_recovery">>,
                                                           <<"modification_reason",
                                                             "Poor recovery status requires intensity reduction">>})
                                           ELSE @]]
                   ELSE props]

ResolveEnergyConflict(conflict, props) ==
    LET low == props["NutritionAgent"].nutritional_adequacy = "low"
        high == props["FitnessAgent"].energy_demand = "high"
    IN  [conflict |-> Resolved(conflict, "balance_energy_supply_and_demand",
                               (IF low THEN <<"Prioritized nutritional adequacy improvement">> ELSE <<>>)
                               \o (IF low /\ high
                                   THEN <<"Reduced fitness intensity to match energy availability">>
                                   ELSE <<>>),
                               -5),
         props |-> [a \in AgentSet |->
                       IF a = "NutritionAgent" /\ low
                           THEN [props[a] EXCEPT !.priority_adjustment = "increase_adequacy"]
                       ELSE IF a = "FitnessAgent" /\ low /\ high
                           THEN [props[a] EXCEPT !.energy_demand = "medium"]
                       ELSE props[a]]]

ResolveTimeConflict(conflict, props) ==
    LET wp == Truthy(props["FitnessAgent"].workout_plan)
        mp == Truthy(props["NutritionAgent"].meal_plan)
    IN  [conflict |-> Resolved(conflict, "optimize_for_time_efficiency",
                               (IF wp THEN <<"Optimized workout plan for time efficiency">> ELSE <<>>)
                               \o (IF mp THEN <<"Simplified meal prep for time savings">> ELSE <<>>),
                               -10),
         props |-> [a \in AgentSet |->
                       IF a = "FitnessAgent" /\ wp
                           THEN [props[a] EXCEPT !.workout_plan =
                                    PutAll(@, {<<"time_optimization", "high_efficiency_focus">>})]
                       ELSE IF a = "NutritionAgent" /\ mp
                           THEN [props[a] EXCEPT !.meal_plan =
                                    PutAll(@, {<<"prep_optimization", "quick_prep_focus">>})]
                       ELSE props[a]]]

ResolveBudgetConflict(conflict, props) ==
    LET np == props["NutritionAgent"]
        mp == Truthy(np.meal_plan)
    IN  [conflict |-> Resolved(conflict, "optimize_nutrition_for_budget",
                               IF mp THEN <<"Optimized meal plan for budget constraints">> ELSE <<>>,
                               -5),
         props |-> IF mp
                   THEN [props EXCEPT !["NutritionAgent"] =
                            [np EXCEPT !.meal_plan = PutAll(@, {<<"cost_optimization", "maximum_efficiency">>}),
                                       !.budget_utilization = Num(Min(BudgetUtilization(np, 90), 85))]]
                   ELSE props]

\* the nutritional resolver stepping the demand down from any level above low
ResolveNutritionalConflict_StepsDownFromMedium(conflict, props) ==
    LET low == props["NutritionAgent"].nutritional_adequacy = "low"
        demand == Get(props["FitnessAgent"].energy_demand, "medium")
        lowers == low /\ demand \in {"high", "medium"}
    IN  [conflict |-> Resolved(conflict, "prioritize_nutritional_adequacy",
                               (IF low THEN <<"Prioritized nutritional adequacy over fitness intensity">>
                                ELSE <<>>)
                               \o (IF lowers
                                   THEN <<"Reduced fitness intensity to match nutritional capacity">>
                                   ELSE <<>>),
                               -10),
         props |-> [a \in AgentSet |->
                       IF a = "NutritionAgent" /\ low
                           THEN [props[a] EXCEPT !.adequacy_priority = "high"]
                       ELSE IF a = "FitnessAgent" /\ lowers
                           THEN [props[a] EXCEPT !.energy_demand =
                                    IF demand = "high" THEN "medium" ELSE "low"]
                       ELSE props[a]]]

ResolveNutritionalConflict(conflict, props) ==
    LET low == props["NutritionAgent"].nutritional_adequacy = "low"
        high == props["FitnessAgent"].energy_demand = "high"
    IN  [conflict |-> Resolved(conflict, "prioritize_nutritional_adequacy",
                               (IF low THEN <<"Prioritized nutritional adequacy over fitness intensity">>
                                ELSE <<>>)
                               \o (IF low /\ high
                                   THEN <<"Reduced fitness intensity to match nutritional capacity">>
                                   ELSE <<>>),
                               -10),
         props |-> [a \in AgentSet |->
                       IF a = "NutritionAgent" /\ low
                           THEN [props[a] EXCEPT !.adequacy_priority = "high"]
                       ELSE IF a = "FitnessAgent" /\ low /\ high
                           THEN [props[a] EXCEPT !.energy_demand = "medium"]
                       ELSE props[a]]]

ResolveMotivationConflict(conflict, props) ==
    LET wp == "FitnessAgent" \in Range(conflict.affected_agents)
              /\ Truthy(props["FitnessAgent"].workout_plan)
        mp == "NutritionAgent" \in Range(conflict.affected_agents)
              /\ Truthy(props["NutritionAgent"].meal_plan)
    IN  [conflict |-> Resolved(conflict, "simplify_plans_for_motivation",
                               (IF wp THEN <<"Simplified workout plan for better adherence">> ELSE <<>>)
                               \o (IF mp THEN <<"Simplified meal plan for better adherence">> ELSE <<>>),
                               -5),
         props |-> [a \in AgentSet |->
                       IF a = "FitnessAgent" /\ wp
                           THEN [props[a] EXCEPT !.workout_plan =
                                    PutAll(@, {<<"complexity_reduction", "simplified_for_motivation">>})]
                       ELSE IF a = "NutritionAgent" /\ mp
                           THEN [props[a] EXCEPT !.meal_plan =
                                    PutAll(@, {<<"complexity_reduction", "simplified_for_motivation">>})]
                       ELSE props[a]]]

ResolveGenericConflict(conflict, props) ==
    [conflict |-> Resolved(conflict, "conservative_modification",
                           <<"Applied conservative modifications to resolve conflict">>, -10),
     props |-> [a \in AgentSet |->
                   IF a \in Range(conflict.affected_agents) /\ props[a].present
                   THEN [props[a] EXCEPT !.conflict_resolution_applied = "True",
                                         !.modification_reason = "Resolved conflict"]
                   ELSE props[a]]]

ResolveSingleConflict(conflict, props) ==
    IF conflict.conflict_type = "recovery_conflict" THEN ResolveRecoveryConflict(conflict, props)
    ELSE IF conflict.conflict_type = "energy_conflict" THEN ResolveEnergyConflict(conflict, props)
    ELSE IF conflict.conflict_type = "time_conflict" THEN ResolveTimeConflict(conflict, props)
    ELSE IF conflict.conflict_type = "budget_conflict" THEN ResolveBudgetConflict(conflict, props)
    ELSE IF conflict.conflict_type = "nutritional_conflict" THEN ResolveNutritionalConflict(conflict, props)
    ELSE IF conflict.conflict_type = "motivation_conflict" THEN ResolveMotivationConflict(conflict, props)
    ELSE ResolveGenericConflict(conflict, props)

ConfidenceOf(p) == IF p.confidence.kind = "num" THEN p.confidence.val ELSE 50

\* the confidence impact applied a second time to every affected agent
ApplyConflictResolution_Twice(props, resolution) ==
    [a \in AgentSet |->
        IF a \in Range(resolution.affected_agents) /\ props[a].present
        THEN [props[a] EXCEPT !.confidence =
                 Num(Max(10, Max(10, ConfidenceOf(props[a]) + resolution.confidence_impact)
                                 + resolution.confidence_impact))]
        ELSE props[a]]

ApplyConflictResolution(props, resolution) ==
    [a \in AgentSet |->
        IF a \in Range(resolution.affected_agents) /\ props[a].present
        THEN [props[a] EXCEPT !.confidence =
                 Num(Max(10, ConfidenceOf(props[a]) + resolution.confidence_impact))]
        ELSE props[a]]

-----------------------------------------------------------------------------
(* PlanAggregator and the result envelopes *)

EmptyDictPlan == [has |-> TRUE, base |-> "empty", d |-> {}]

\* proposal.get(<plan>, {})
PlanOrEmpty(plan) == IF plan.has THEN plan ELSE EmptyDictPlan

\* unified_plan = {}
EmptyUnifiedPlan ==
    [empty |-> TRUE, fitness |-> NoPlan, nutrition |-> NoPlan, sleep |-> NoPlan,
     mental_wellness |-> NoPlan]

\* one slot per proposal present, keyed by the agent's domain
UnifiedPlanOf(props) ==
    [empty |-> \A a \in AgentSet : ~props[a].present,
     fitness |-> IF props["FitnessAgent"].present
                 THEN PlanOrEmpty(props["FitnessAgent"].workout_plan) ELSE NoPlan,
     nutrition |-> IF props["NutritionAgent"].present
                   THEN PlanOrEmpty(props["NutritionAgent"].meal_plan) ELSE NoPlan,
     sleep |-> IF props["SleepAgent"].present
               THEN PlanOrEmpty(props["SleepAgent"].sleep_recommendations) ELSE NoPlan,
     mental_wellness |-> IF props["MentalWellnessAgent"].present
                         THEN PlanOrEmpty(props["MentalWellnessAgent"].wellness_recommendations)
                         ELSE NoPlan]

PresentAgents(props) == SelectSeq(expected_agents, LAMBDA a : props[a].present)

\* total_confidence / len(agent_proposals), kept as a fraction of hundredths
OverallConfidence(props) ==
    LET present == PresentAgents(props)
    IN  IF present = <<>> THEN [num |-> 0, den |-> 1]
        ELSE [num |-> SumSeq([i \in 1..Len(present) |-> ConfidenceOf(props[present[i]])]),
              den |-> 100 * Len(present)]

NoBlock == [has |-> FALSE]
NoValidationResults == [has |-> FALSE]

CreateUnifiedPlanNoConflicts(props) ==
    [unified_plan |-> UnifiedPlanOf(props),
     confidence |-> OverallConfidence(props),
     conflicts_detected |-> <<>>,
     conflicts_resolved |-> <<>>,
     trade_offs_made |-> <<>>,
     agent_contributions |->
         {[agent |-> a, confidence |-> ConfidenceOf(props[a]),
           contribution_type |-> "full_proposal", modifications |-> <<>>]
          : a \in Range(PresentAgents(props))},
     constraint_satisfaction_score |-> 100,
     optimization_metrics |-> [total_agents |-> Len(PresentAgents(props)), conflicts_count |-> 0,
                               optimization_time_ms |-> 0],
     error |-> Missing,
     validation_results |-> NoValidationResults,
     recovery_prioritization |-> NoBlock,
     reasoning |-> "plan_summary"]

\* in hundredths
RECURSIVE Deductions(_)
Deductions(cs) ==
    IF cs = <<>> THEN 0
    ELSE (IF Head(cs).conflict_type \in {"recovery_conflict", "energy_conflict"} THEN 10 ELSE 5)
         + Deductions(Tail(cs))

\* the score without its lower clamp
CalculateConstraintSatisfactionScore_NoFloor(conflicts_resolved) ==
    Min(100, 100 - Deductions(conflicts_resolved))

CalculateConstraintSatisfactionScore(conflicts_resolved) ==
    Max(0, Min(100, 100 - Deductions(conflicts_resolved)))

RECURSIVE AllTradeOffs(_)
AllTradeOffs(cs) ==
    IF cs = <<>> THEN <<>> ELSE Head(cs).trade_offs_made \o AllTradeOffs(Tail(cs))

Modifications(p) ==
    IF p.conflict_resolution_applied # Missing
    THEN <<Get(p.modification_reason, "Conflict resolution applied")>>
    ELSE <<>>

GenerateUnifiedPlan(props, conflicts_resolved, resolution_time_ms) ==
    [unified_plan |-> UnifiedPlanOf(props),
     confidence |-> OverallConfidence(props),
     conflicts_detected |-> ConflictTypes(conflicts_resolved),
     conflicts_resolved |-> conflicts_resolved,
     trade_offs_made |-> AllTradeOffs(conflicts_resolved),
     agent_contributions |->
         {[agent |-> a, confidence |-> ConfidenceOf(props[a]),
           contribution_type |-> IF Modifications(props[a]) # <<>> THEN "modified_proposal"
                                 ELSE "full_proposal",
           modifications |-> Modifications(props[a])]
          : a \in Range(PresentAgents(props))},
     constraint_satisfaction_score |-> CalculateConstraintSatisfactionScore(conflicts_resolved),
     optimization_metrics |-> [total_agents |-> Len(PresentAgents(props)),
                               conflicts_count |-> Len(conflicts_resolved),
                               optimization_time_ms |-> resolution_time_ms],
     error |-> Missing,
     validation_results |-> NoValidationResults,
     recovery_prioritization |-> NoBlock,
     reasoning |-> "coordination_reasoning"]

HandleInvalidProposals(vr) ==
    [unified_plan |-> EmptyUnifiedPlan,
     confidence |-> [num |-> 0, den |-> 1],
     conflicts_detected |-> <<>>,
     conflicts_resolved |-> <<>>,
     trade_offs_made |-> <<>>,
     agent_contributions |-> {},
     constraint_satisfaction_score |-> 0,
     optimization_metrics |-> [total_agents |-> 0, conflicts_count |-> 0, optimization_time_ms |-> 0],
     error |-> "Invalid agent proposals detected",
     validation_results |-> [has |-> TRUE, all_valid |-> vr.all_valid,
                             missing_agents |-> vr.missing_agents,
                             invalid_proposals |-> vr.invalid_proposals],
     recovery_prioritization |-> NoBlock,
     reasoning |-> "invalid_proposals"]

\* the error envelope with a generic message instead of the exception's
CreateErrorCoordinationResult_GenericMessage(error_message, props) ==
    [unified_plan |-> EmptyUnifiedPlan,
     confidence |-> [num |-> 0, den |-> 1],
     conflicts_detected |-> <<>>,
     conflicts_resolved |-> <<>>,
     trade_offs_made |-> <<>>,
     agent_contributions |-> {},
     constraint_satisfaction_score |-> 0,
     optimization_metrics |-> [total_agents |-> Len(PresentAgents(props)), conflicts_count |-> 0,
                               optimization_time_ms |-> 0],
     error |-> "Coordination failed",
     validation_results |-> NoValidationResults,
     recovery_prioritization |-> NoBlock,
     reasoning |-> "coordination_failed"]

CreateErrorCoordinationResult(error_message, props) ==
    [unified_plan |-> EmptyUnifiedPlan,
     confidence |-> [num |-> 0, den |-> 1],
     conflicts_detected |-> <<>>,
     conflicts_resolved |-> <<>>,
     trade_offs_made |-> <<>>,
     agent_contributions |-> {},
     constraint_satisfaction_score |-> 0,
     optimization_metrics |-> [total_agents |-> Len(PresentAgents(props)), conflicts_count |-> 0,
                               optimization_time_ms |-> 0],
     error |-> error_message,
     validation_results |-> NoValidationResults,
     recovery_prioritization |-> NoBlock,
     reasoning |-> "coordination_failed"]

\* the dataclasses EnergyBalance and RecoveryPriority define no to_dict method
EnergyBalanceHasToDict == FALSE
RecoveryPriorityHasToDict == FALSE

\* TradeOffExplainer: the six keys of generate_trade_off_explanations
GenerateTradeOffExplanations(rp, eb) ==
    [recovery_rationale |-> rp.priority_level,
     domain_impacts |-> rp.affected_domains,
     trade_off_details |-> rp.trade_offs,
     sustainability_benefits |-> IF rp.priority_level \in {"critical", "high"} THEN 7 ELSE 5,
     timeline_explanation |-> rp.timeline,
     confidence_factors |-> IF rp.confidence > 80 THEN "high"
                            ELSE IF rp.confidence > 60 THEN "moderate" ELSE "lower"]

\* the dict literal assigned to unified_plan['recovery_prioritization']
RecoveryPrioritizationBlock(eb, ec, rp) ==
    [has |-> TRUE, energy_balance |-> eb, energy_conflicts |-> ec, recovery_priority |-> rp,
     trade_off_explanations |-> GenerateTradeOffExplanations(rp, eb)]

\* evaluating that literal raises AttributeError at the first missing method
BlockRaises == ~EnergyBalanceHasToDict \/ ~RecoveryPriorityHasToDict

AttributeErrorMessage ==
    IF ~EnergyBalanceHasToDict THEN "'EnergyBalance' object has no attribute 'to_dict'"
    ELSE "'RecoveryPriority' object has no attribute 'to_dict'"

TypeErrorMessage == "unsupported operand type(s) for -: 'str' and 'int'"

ConflictTypeSet ==
    {"energy_conflict", "time_conflict", "budget_conflict", "recovery_conflict",
     "nutritional_conflict", "motivation_conflict"}

\* _track_common_conflicts: the counts of working memory, plus the current conflicts
TrackCommonConflicts(wm, current_conflicts) ==
    [t \in ConflictTypeSet |->
        wm.common_conflicts[t] + Cardinality({i \in 1..Len(current_conflicts) :
                                               current_conflicts[i].conflict_type = t})]

\* _store_coordination_session: update of the working memory
StoreCoordinationSession(wm, current_conflicts, unified_plan) ==
    [last_coordination_success |-> IF unified_plan.constraint_satisfaction_score > 50
                                   THEN "True" ELSE "False",
     common_conflicts |-> TrackCommonConflicts(wm, current_conflicts)]

InitialWorkingMemory ==
    [last_coordination_success |-> Missing, common_conflicts |-> [t \in ConflictTypeSet |-> 0]]

-----------------------------------------------------------------------------
(* Inputs of a call *)

BusyPlan == [has |-> TRUE, base |-> "busy", d |-> {}]

FitnessInputs ==
    {[EmptyProposal EXCEPT !.energy_demand = e, !.training_load_score = t,
                           !.confidence = c, !.workout_plan = w]
     : e \in {Missing, "low", "high"},
       t \in {NoNum, Num(0), Num(85), Str},
       c \in {NoNum, Num(-20), Num(150)},
       w \in {NoPlan, BusyPlan}}

NutritionInputs ==
    {[EmptyProposal EXCEPT !.nutritional_adequacy = n, !.budget_utilization = b, !.meal_plan = m]
     : n \in {Missing, "low"},
       b \in {NoNum, Num(95)},
       m \in {NoPlan, EmptyDictPlan, BusyPlan}}

SleepInputs ==
    {[EmptyProposal EXCEPT !.recovery_status = r, !.confidence = c]
     : r \in {Missing, "poor", "fair"}, c \in {NoNum}}
    \cup {[EmptyProposal EXCEPT !.recovery_status = "poor", !.confidence = Str]}

SimplificationNeeded == [has |-> TRUE, d |-> {<<"simplification_needed", "True">>}]

MentalWellnessInputs ==
    {EmptyProposal,
     [EmptyProposal EXCEPT !.motivation_level = "low", !.confidence = Num(5)],
     [EmptyProposal EXCEPT !.motivation_level = "low", !.complexity_adjustments = SimplificationNeeded]}

\* the dict {'FitnessAgent': f, 'NutritionAgent': n, 'SleepAgent': sl, 'MentalWellnessAgent': m}
ProposalsOf(f, n, sl, m) ==
    [a \in AgentSet |->
        IF a = "FitnessAgent" THEN f
        ELSE IF a = "NutritionAgent" THEN n
        ELSE IF a = "SleepAgent" THEN sl
        ELSE m]

\* recent_data.sleep.daily_hours and stress_indicators of the user profile
UserDataInputs ==
    {[daily_hours |-> <<>>, stress_indicators |-> NoStress],
     [daily_hours |-> <<8, 5>>, stress_indicators |-> NoStress],
     [daily_hours |-> <<>>, stress_indicators |-> [NoStress EXCEPT !.work_stress_level = 10]],
     [daily_hours |-> <<>>, stress_indicators |-> [NoStress EXCEPT !.work_stress_level = 10,
                                                                   !.relationship_stress = 10]]}

ConstraintInputs == {[max_weekly_minutes |-> NoNum]}

NoResult == [returned |-> FALSE]

NoValidation == [all_valid |-> TRUE, missing_agents |-> <<>>, invalid_proposals |-> <<>>]

\* the coordinator is called directly: no orchestrator, no cache
NoOrchestrator ==
    /\ wf_pc = "none"
    /\ self_agents = [a \in AgentSet |-> "agent"]
    /\ cache_backend = "disabled"
    /\ cache = [a \in AgentSet |-> [kind |-> "none"]]
    /\ results = [a \in AgentSet |-> [state |-> "none"]]
    /\ produced = [a \in AgentSet |-> AbsentProposal]
    /\ executed = [a \in AgentSet |-> [state |-> "none"]]
    /\ runs = 0
    /\ workflow_result = [state |-> "none"]

\* the locals of a call before its first statement
CallStart ==
    /\ pc = "start"
    /\ validated = agent_proposals
    /\ validation_results = NoValidation
    /\ energy_balance = NoEnergyBalance
    /\ energy_conflicts = <<>>
    /\ recovery_priority = NoRecoveryPriority
    /\ conflicts = <<>>
    /\ pending = <<>>
    /\ resolved_conflicts = <<>>
    /\ stages = {}
    /\ exception = Missing
    /\ result = NoResult

Init ==
    /\ \E f \in FitnessInputs \cup {AbsentProposal}, n \in NutritionInputs \cup {AbsentProposal},
          sl \in SleepInputs \cup {AbsentProposal}, m \in MentalWellnessInputs \cup {AbsentProposal} :
            agent_proposals = ProposalsOf(f, n, sl, m)
    /\ input_proposals = agent_proposals
    /\ user_constraints \in ConstraintInputs
    /\ user_data \in UserDataInputs
    /\ working_memory = InitialWorkingMemory
    /\ previous_results = <<>>
    /\ NoOrchestrator
    /\ CallStart

-----------------------------------------------------------------------------
(* coordinate_agent_proposals, step by step *)

\* return value: the except clause turns a raised exception into the error result
Return(value) ==
    /\ result' = value
    /\ exception' = Missing
    /\ pc' = "done"

Raise(message) ==
    /\ result' = CreateErrorCoordinationResult(message, agent_proposals)
    /\ exception' = message
    /\ pc' = "done"

\* _validate_all_proposals and the early return on invalid proposals
Validate ==
    /\ UNCHANGED orchestrator_vars
    /\ pc = "start"
    /\ LET vr == ValidateAllProposals(agent_proposals)
       IN  /\ validation_results' = vr
           /\ agent_proposals' = ValidatedAll(agent_proposals)
           /\ validated' = agent_proposals'
           /\ stages' = stages \cup {"validation"}
           /\ IF ~vr.all_valid
              THEN Return(HandleInvalidProposals(vr))
              ELSE /\ pc' = "assess"
                   /\ UNCHANGED <<result, exception>>
    /\ UNCHANGED <<input_proposals, user_constraints, user_data, energy_balance, energy_conflicts,
                   recovery_priority, conflicts, pending, resolved_conflicts, working_memory,
                   previous_results>>

\* assess_energy_balance and detect_energy_conflicts
AssessEnergy ==
    /\ UNCHANGED orchestrator_vars
    /\ pc = "assess"
    /\ stages' = stages \cup {"energy_assessment"}
    /\ IF RaisesTypeError(agent_proposals["FitnessAgent"])
       THEN /\ Raise(TypeErrorMessage)
            /\ UNCHANGED <<energy_balance, energy_conflicts>>
       ELSE /\ energy_balance' = AssessEnergyBalance(agent_proposals, user_data)
            /\ energy_conflicts' = DetectEnergyConflicts(energy_balance', agent_proposals, user_data)
            /\ pc' = IF energy_conflicts' # <<>> THEN "prioritize" ELSE "detect"
            /\ UNCHANGED <<result, exception>>
    /\ UNCHANGED <<agent_proposals, input_proposals, validated, user_constraints, user_data,
                   validation_results, recovery_priority, conflicts, pending, resolved_conflicts,
                   working_memory, previous_results>>

\* prioritize_recovery and _apply_recovery_prioritization
Prioritize ==
    /\ UNCHANGED orchestrator_vars
    /\ pc = "prioritize"
    /\ stages' = stages \cup {"recovery_prioritization"}
    /\ recovery_priority' = PrioritizeRecovery(energy_conflicts, energy_balance, agent_proposals)
    /\ agent_proposals' = ApplyRecoveryPrioritization(agent_proposals, recovery_priority')
    /\ pc' = "detect"
    /\ UNCHANGED <<input_proposals, validated, user_constraints, user_data, validation_results,
                   energy_balance, energy_conflicts, conflicts, pending, resolved_conflicts,
                   exception, working_memory, previous_results, result>>

\* _detect_conflicts; with no conflict, the plan of _create_unified_plan_no_conflicts
\* and the recovery block are built and returned
Detect ==
    /\ UNCHANGED orchestrator_vars
    /\ pc = "detect"
    /\ conflicts' = DetectConflicts(agent_proposals, user_constraints)
    /\ IF conflicts' = <<>>
       THEN /\ stages' = stages \cup {"conflict_detection", "aggregation"}
            /\ pending' = <<>>
            /\ IF recovery_priority.isNone
               THEN Return(CreateUnifiedPlanNoConflicts(agent_proposals))
               ELSE IF BlockRaises
               THEN Raise(AttributeErrorMessage)
               ELSE Return([CreateUnifiedPlanNoConflicts(agent_proposals) EXCEPT
                               !.recovery_prioritization =
                                   RecoveryPrioritizationBlock(energy_balance, energy_conflicts,
                                                               recovery_priority)])
       ELSE /\ stages' = stages \cup {"conflict_detection"}
            /\ pending' = PrioritizeConflicts(conflicts')
            /\ pc' = "resolve"
            /\ UNCHANGED <<result, exception>>
    /\ UNCHANGED <<agent_proposals, input_proposals, validated, user_constraints, user_data,
                   validation_results, energy_balance, energy_conflicts, recovery_priority,
                   resolved_conflicts, working_memory, previous_results>>

\* one iteration of the loop of _resolve_conflicts_with_optimization; the resolver
\* mutates the conflict object, which the detected list shares
ResolveNext ==
    /\ UNCHANGED orchestrator_vars
    /\ pc = "resolve"
    /\ pending # <<>>
    /\ LET resolution == ResolveSingleConflict(Head(pending), agent_proposals)
       IN  /\ agent_proposals' = ApplyConflictResolution(resolution.props, resolution.conflict)
           /\ resolved_conflicts' = Append(resolved_conflicts, resolution.conflict)
           /\ conflicts' = [i \in 1..Len(conflicts) |->
                               IF conflicts[i].conflict_type = resolution.conflict.conflict_type
                               THEN resolution.conflict ELSE conflicts[i]]
    /\ pending' = Tail(pending)
    /\ stages' = stages \cup {"conflict_resolution"}
    /\ UNCHANGED <<pc, input_proposals, validated, user_constraints, user_data, validation_results,
                   energy_balance, energy_conflicts, recovery_priority, exception, working_memory,
                   previous_results, result>>

\* end of the loop: the elapsed wall-clock time is read, _generate_unified_plan builds
\* the plan, the recovery block is added and the session is stored
Finish ==
    /\ UNCHANGED orchestrator_vars
    /\ pc = "resolve"
    /\ pending = <<>>
    /\ \E resolution_time_ms \in 0..MaxElapsedMs :
        LET unified_plan == GenerateUnifiedPlan(agent_proposals, resolved_conflicts, resolution_time_ms)
        IN  IF recovery_priority.isNone
            THEN /\ stages' = stages \cup {"aggregation", "session_storage"}
                 /\ working_memory' = StoreCoordinationSession(working_memory, conflicts, unified_plan)
                 /\ Return(unified_plan)
            ELSE IF BlockRaises
            THEN /\ stages' = stages \cup {"aggregation"}
                 /\ Raise(AttributeErrorMessage)
                 /\ UNCHANGED working_memory
            ELSE LET with_block == [unified_plan EXCEPT
                                       !.recovery_prioritization =
                                           RecoveryPrioritizationBlock(energy_balance, energy_conflicts,
                                                                       recovery_priority)]
                 IN  /\ stages' = stages \cup {"aggregation", "session_storage"}
                     /\ working_memory' = StoreCoordinationSession(working_memory, conflicts, with_block)
                     /\ Return(with_block)
    /\ UNCHANGED <<agent_proposals, input_proposals, validated, user_constraints, user_data,
                   validation_results, energy_balance, energy_conflicts, recovery_priority,
                   conflicts, pending, resolved_conflicts, previous_results>>

Next ==
    \/ Validate
    \/ AssessEnergy
    \/ Prioritize
    \/ Detect
    \/ ResolveNext
    \/ Finish

Spec == Init /\ [][Next]_vars

-----------------------------------------------------------------------------
(* Repeated calls: the caller invokes the coordinator again on a deep copy *)
(* of the same inputs; the coordinator object (its working memory) is kept *)

CallAgain ==
    /\ UNCHANGED orchestrator_vars
    /\ pc = "done"
    /\ Len(previous_results) < MaxCalls - 1
    /\ previous_results' = Append(previous_results, result)
    /\ agent_proposals' = input_proposals
    /\ pc' = "start"
    /\ validated' = agent_proposals'
    /\ validation_results' = NoValidation
    /\ energy_balance' = NoEnergyBalance
    /\ energy_conflicts' = <<>>
    /\ recovery_priority' = NoRecoveryPriority
    /\ conflicts' = <<>>
    /\ pending' = <<>>
    /\ resolved_conflicts' = <<>>
    /\ stages' = {}
    /\ exception' = Missing
    /\ result' = NoResult
    /\ UNCHANGED <<input_proposals, user_constraints, user_data, working_memory>>

AllPresent(props) == \A a \in AgentSet : props[a].present

InitTwice ==
    /\ Init
    /\ AllPresent(agent_proposals)
    /\ agent_proposals["FitnessAgent"].confidence = NoNum
    /\ user_data.stress_indicators = NoStress

SpecTwice == InitTwice /\ [][Next \/ CallAgain]_vars

-----------------------------------------------------------------------------
(* Properties *)

Absent(props) == {a \in AgentSet : ~props[a].present}

DetectedTypes == Range(ConflictTypes(conflicts))
ResolvedTypes == Range(ConflictTypes(resolved_conflicts))

\* C1: with all four domains present, a call that ran recovery prioritization
\* or conflict resolution returns a plan with no 'error' key.
C1_NoErrorWithAllDomains ==
    (/\ pc = "done"
     /\ AllPresent(input_proposals)
     /\ ("recovery_prioritization" \in stages \/ "conflict_resolution" \in stages))
    => result.error = Missing

\* C2: once validated, every proposal's confidence is a number in [0,1], after
\* recovery prioritization and after each resolution step too, and the
\* confidence of the returned result is in [0,1].
C2_ConfidenceBound ==
    /\ pc # "start" =>
           \A a \in AgentSet :
               agent_proposals[a].present =>
                   /\ agent_proposals[a].confidence.kind = "num"
                   /\ 0 <= agent_proposals[a].confidence.val
                   /\ agent_proposals[a].confidence.val <= 100
    /\ pc = "done" =>
           /\ 0 <= result.confidence.num
           /\ result.confidence.num <= result.confidence.den

\* a call given a negative and a non-numeric confidence that went through
\* recovery prioritization and conflict resolution
C2_Witness ==
    /\ pc = "done"
    /\ input_proposals["FitnessAgent"].confidence = Num(-20)
    /\ input_proposals["SleepAgent"].confidence = Str
    /\ "recovery_prioritization" \in stages
    /\ "conflict_resolution" \in stages

C5_ScenarioA ==
    (/\ pc = "done"
     /\ AllPresent(input_proposals)
     /\ exception = Missing
     /\ validated["SleepAgent"].recovery_status = "poor"
     /\ validated["FitnessAgent"].energy_demand = "high")
    => /\ "recovery_conflict" \in DetectedTypes
       /\ "recovery_conflict" \in ResolvedTypes
       /\ agent_proposals["FitnessAgent"].energy_demand = "medium"
       /\ (ConfidenceOf(validated["FitnessAgent"]) - 10 >= 10
              => ConfidenceOf(agent_proposals["FitnessAgent"])
                     = ConfidenceOf(validated["FitnessAgent"]) - 10)

\* C6: a Nutrition budget_utilization above 0.9 is reported as a budget_conflict
\* by _detect_conflicts, and once that conflict has been resolved the
\* budget_utilization is at most 0.85.
C6_ScenarioB ==
    /\ (/\ "conflict_detection" \in stages
        /\ BudgetUtilization(validated["NutritionAgent"], 0) > 90)
       => "budget_conflict" \in DetectedTypes
    /\ "budget_conflict" \in ResolvedTypes
       => BudgetUtilization(agent_proposals["NutritionAgent"], 0) <= 85

\* C7: when an expected domain is missing, the call leaves every proposal as
\* the caller passed it.
C7_NoMutationOnMissingDomain ==
    (pc = "done" /\ Absent(input_proposals) # {}) => agent_proposals = input_proposals

\* C8: with an expected domain absent the call returns the invalid-proposals
\* envelope (empty plan, confidence 0.0, 'error', validation_results listing
\* exactly the absent domains) and runs nothing after validation; with no
\* domain absent the validation never fails.
C8_MissingDomainShortCircuit ==
    /\ (pc = "done" /\ Absent(input_proposals) # {}) =>
           /\ result.unified_plan = EmptyUnifiedPlan
           /\ result.confidence.num = 0
           /\ result.error # Missing
           /\ result.validation_results.has
           /\ Range(result.validation_results.missing_agents) = Absent(input_proposals)
           /\ Len(result.validation_results.missing_agents) = Cardinality(Absent(input_proposals))
           /\ stages = {"validation"}
    /\ (pc # "start" /\ Absent(input_proposals) = {}) =>
           /\ validation_results.all_valid
           /\ (pc = "done" => "energy_assessment" \in stages)

\* a call from which Fitness and Sleep were absent
C8_Witness ==
    /\ pc = "done"
    /\ Absent(input_proposals) = {"FitnessAgent", "SleepAgent"}
    /\ result.validation_results.has
    /\ result.validation_results.missing_agents = <<"FitnessAgent", "SleepAgent">>

\* C9: a call in which an exception was raised returns the error envelope with
\* the exception's message: empty plan, confidence 0.0, constraint satisfaction
\* score 0.0; every call ends with a returned result.
C9_ExceptionBecomesErrorResult ==
    /\ pc = "done" => result # NoResult
    /\ (pc = "done" /\ exception # Missing) =>
           /\ result.unified_plan = EmptyUnifiedPlan
           /\ result.confidence.num = 0
           /\ result.constraint_satisfaction_score = 0
           /\ result.error = exception

\* an exception raised after the conflicts had been resolved
C9_Witness ==
    /\ pc = "done"
    /\ exception = AttributeErrorMessage
    /\ "conflict_resolution" \in stages
    /\ result.error = AttributeErrorMessage

\* C10: when detect_energy_conflicts returned a non-empty list the result carries
\* the recovery_prioritization block; when it returned an empty list it does not.
C10_RecoveryBlock ==
    (pc = "done" /\ AllPresent(input_proposals) /\ "energy_assessment" \in stages) =>
        (energy_conflicts # <<>> <=> result.recovery_prioritization.has)

\* rank of a conflict type in the order Recovery, Energy, Time, Budget,
\* Nutritional, Motivation
ResolutionRank(type) ==
    CASE type = "recovery_conflict" -> 1
      [] type = "energy_conflict" -> 2
      [] type = "time_conflict" -> 3
      [] type = "budget_conflict" -> 4
      [] type = "nutritional_conflict" -> 5
      [] type = "motivation_conflict" -> 6
      [] OTHER -> 10

InResolutionOrder(types) ==
    \A i, j \in 1..Len(types) : i < j => ResolutionRank(types[i]) < ResolutionRank(types[j])

\* C11: whatever order the detector emitted the conflicts in, they are resolved
\* in the order Recovery, Energy, Time, Budget, Nutritional, Motivation: the
\* conflicts resolved so far are in that order, every conflict still to resolve
\* ranks after all of them, each resolution step takes the first pending
\* conflict and works on the proposals left by the steps before it, and
\* conflicts_resolved and conflicts_detected of the returned plan are in that
\* same order.
C11_ResolutionOrder ==
    /\ InResolutionOrder(ConflictTypes(resolved_conflicts \o pending))
    /\ pc = "resolve" =>
           Range(ConflictTypes(resolved_conflicts \o pending)) = Range(ConflictTypes(conflicts))
    /\ (pc = "done" /\ "conflict_resolution" \in stages /\ exception = Missing) =>
           /\ result.conflicts_resolved = resolved_conflicts
           /\ result.conflicts_detected = ConflictTypes(resolved_conflicts)
           /\ Len(resolved_conflicts) = Len(conflicts)
           /\ InResolutionOrder(result.conflicts_detected)

\* the detector emitted energy, budget, recovery and the plan lists recovery,
\* energy, budget
C11_Witness ==
    /\ pc = "done"
    /\ exception = Missing
    /\ ConflictTypes(conflicts) = <<"energy_conflict", "budget_conflict", "recovery_conflict">>
    /\ result.conflicts_detected = <<"recovery_conflict", "energy_conflict", "budget_conflict">>

-----------------------------------------------------------------------------
(* Single functions applied to inputs drawn from bounded sets.  The variables *)
(* a function does not read or write keep the values of an idle coordinator. *)

DefaultProposals == ValidatedAll(ProposalsOf(EmptyProposal, EmptyProposal, EmptyProposal, EmptyProposal))

NoUserData == [daily_hours |-> <<>>, stress_indicators |-> NoStress]

\* the variables that no single-function run touches
UnitStart(label) ==
    /\ pc = label
    /\ input_proposals = agent_proposals
    /\ validated = agent_proposals
    /\ validation_results = NoValidation
    /\ stages = {}
    /\ exception = Missing
    /\ working_memory = InitialWorkingMemory
    /\ previous_results = <<>>
    /\ result = NoResult
    /\ NoOrchestrator

-----------------------------------------------------------------------------
(* prioritize_recovery on the output of assess_energy_balance and            *)
(* detect_energy_conflicts                                                   *)

\* an EnergyBalance as assess_energy_balance builds it from the four scores (tenths)
EnergyBalanceOf(demand, availability, capacity, stress) ==
    [energy_demand |-> demand,
     energy_availability |-> availability,
     recovery_capacity |-> capacity,
     stress_load |-> stress,
     sustainability_score |-> CalculateSustainabilityScore(demand, availability, capacity, stress),
     balance_status |-> DetermineBalanceStatus(demand, availability, capacity)]

EnergyBalanceInputs ==
    {EnergyBalanceOf(d, a, c, s) :
        d \in {300, 650, 750, 1000}, a \in {0, 500, 1000},
        c \in {0, 249, 250, 299, 300, 499, 500, 1000}, s \in {0, 750, 800, 1000}}

\* the list detect_energy_conflicts returns for balance eb when nutrition adequacy
\* is low (nutrition), sleep debt exceeds two hours (debt) and training load exceeds
\* the overtraining threshold (load)
EnergyConflictsFor(eb, nutrition, debt, load) ==
    LET found ==
            (IF eb.energy_demand > 700 /\ eb.recovery_capacity < recovery_critical_threshold
                THEN <<"high_demand_low_recovery">> ELSE <<>>)
            \o (IF eb.energy_demand > 600 /\ nutrition THEN <<"insufficient_nutrition">> ELSE <<>>)
            \o (IF debt THEN <<"sleep_debt_accumulation">> ELSE <<>>)
            \o (IF load THEN <<"overtraining_risk">> ELSE <<>>)
            \o (IF eb.stress_load > stress_overload_threshold THEN <<"stress_overload">> ELSE <<>>)
    IN  IF Len(found) >= 2 THEN Append(found, "multiple_stressors") ELSE found

InitPriority ==
    /\ agent_proposals = DefaultProposals
    /\ user_constraints \in ConstraintInputs
    /\ user_data = NoUserData
    /\ energy_balance \in EnergyBalanceInputs
    /\ \E nutrition, debt, load \in BOOLEAN :
           energy_conflicts = EnergyConflictsFor(energy_balance, nutrition, debt, load)
    /\ recovery_priority = NoRecoveryPriority
    /\ conflicts = <<>>
    /\ pending = <<>>
    /\ resolved_conflicts = <<>>
    /\ UnitStart("prioritize_recovery")

\* recovery_priority = prioritize_recovery(energy_conflicts, energy_balance, ...)
CallPrioritizeRecovery ==
    /\ UNCHANGED orchestrator_vars
    /\ pc = "prioritize_recovery"
    /\ recovery_priority' = PrioritizeRecovery(energy_conflicts, energy_balance, agent_proposals)
    /\ pc' = "returned"
    /\ UNCHANGED <<agent_proposals, input_proposals, validated, user_constraints, user_data,
                   validation_results, energy_balance, energy_conflicts, conflicts, pending,
                   resolved_conflicts, stages, exception, working_memory, previous_results, result>>

SpecPriority == InitPriority /\ [][CallPrioritizeRecovery]_vars

\* C12: the priority level returned by prioritize_recovery is 'critical' exactly
\* when (two or more conflicts are present and one is the energy/recovery conflict)
\* or recovery_capacity < 25 or sustainability_score < 30; otherwise 'high' exactly
\* when two or more conflicts are present or an energy/recovery or overtraining
\* conflict is present or the balance is a deficit; otherwise 'medium' exactly when
\* one conflict is present or recovery_capacity < 50 or sustainability_score < 60;
\* otherwise 'low'.
C12_PriorityTable ==
    pc = "returned" =>
        LET ec == Range(energy_conflicts)
            \* the multiple-stressors marker is not a conflict of its own
            count == Cardinality(ec \ {"multiple_stressors"})
            eb == energy_balance
        IN  recovery_priority.priority_level =
                IF \/ count >= 2 /\ "high_demand_low_recovery" \in ec
                   \/ eb.recovery_capacity < 250
                   \/ eb.sustainability_score < 30000
                THEN "critical"
                ELSE IF \/ count >= 2
                        \/ "high_demand_low_recovery" \in ec
                        \/ "overtraining_risk" \in ec
                        \/ eb.balance_status = "deficit"
                THEN "high"
                ELSE IF \/ count = 1
                        \/ eb.recovery_capacity < 500
                        \/ eb.sustainability_score < 60000
                THEN "medium"
                ELSE "low"

\* C19: with fewer than two energy conflicts and sustainability_score >= 30, the
\* priority level is 'critical' for every recovery_capacity below 25 and is not
\* 'critical' for recovery_capacity = 25.
C19_StrictCapacityBoundary ==
    (/\ pc = "returned"
     /\ Len(energy_conflicts) < 2
     /\ energy_balance.sustainability_score >= 30000)
    => /\ energy_balance.recovery_capacity < 250 => recovery_priority.priority_level = "critical"
       /\ energy_balance.recovery_capacity = 250 => recovery_priority.priority_level # "critical"

\* recovery_capacity 25.0 with one conflict and a sustainable balance
C19_Witness ==
    /\ pc = "returned"
    /\ Len(energy_conflicts) = 1
    /\ energy_balance.sustainability_score >= 30000
    /\ energy_balance.recovery_capacity = 250
    /\ recovery_priority.priority_level = "high"

-----------------------------------------------------------------------------

\* energy_demand one level down
OneLevelDown(demand) ==
    IF demand = "high" THEN "medium" ELSE "low"

\* C13: right after _apply_recovery_prioritization has applied a critical or high
\* decision whose affected domains include fitness, Fitness energy_demand is one
\* level below its validated value (low stays low) and Fitness confidence is
\* exactly 0.1 below its validated value, never above it.
C13_RecoveryStepDown ==
    (/\ pc = "detect"
     /\ "recovery_prioritization" \in stages
     /\ recovery_priority.priority_level \in {"critical", "high"}
     /\ "fitness" \in recovery_priority.affected_domains)
    => /\ agent_proposals["FitnessAgent"].energy_demand
              = OneLevelDown(validated["FitnessAgent"].energy_demand)
       /\ ConfidenceOf(agent_proposals["FitnessAgent"])
              = ConfidenceOf(validated["FitnessAgent"]) - 10
       /\ ConfidenceOf(agent_proposals["FitnessAgent"]) <= ConfidenceOf(validated["FitnessAgent"])

\* confidence_impact each resolver sets on the conflict it resolves, in hundredths
ResolverImpact(type) ==
    CASE type \in {"recovery_conflict", "time_conflict", "nutritional_conflict"} -> -10
      [] type \in {"energy_conflict", "budget_conflict", "motivation_conflict"} -> -5
      [] OTHER -> -10

\* C14: each iteration of the resolution loop changes the confidence of every
\* agent in the resolved conflict's affected_agents once, to
\* max(0.1, confidence + confidence_impact) with the impact the resolver set, and
\* leaves the confidence of every other agent as it was.
C14_ImpactAppliedOnce ==
    [][(pc = "resolve" /\ pending # <<>>) =>
          LET resolution == resolved_conflicts'[Len(resolved_conflicts')]
          IN  /\ Len(resolved_conflicts') = Len(resolved_conflicts) + 1
              /\ resolution.conflict_type = Head(pending).conflict_type
              /\ resolution.affected_agents = Head(pending).affected_agents
              /\ resolution.confidence_impact = ResolverImpact(resolution.conflict_type)
              /\ \A a \in AgentSet :
                    agent_proposals'[a].confidence =
                        IF a \in Range(resolution.affected_agents)
                        THEN Num(Max(10, ConfidenceOf(agent_proposals[a])
                                         + resolution.confidence_impact))
                        ELSE agent_proposals[a].confidence]_vars

\* a recovery and an energy conflict were resolved: Fitness and Sleep were hit by
\* both, Nutrition by the energy conflict only, MentalWellness by none
C14_Witness ==
    /\ pc = "done"
    /\ exception = Missing
    /\ ConflictTypes(resolved_conflicts) = <<"recovery_conflict", "energy_conflict">>
    /\ ConfidenceOf(validated["FitnessAgent"]) = 100
    /\ ConfidenceOf(agent_proposals["FitnessAgent"]) = 85
    /\ ConfidenceOf(agent_proposals["SleepAgent"]) = ConfidenceOf(validated["SleepAgent"]) - 15
    /\ ConfidenceOf(agent_proposals["NutritionAgent"]) = ConfidenceOf(validated["NutritionAgent"]) - 5
    /\ agent_proposals["MentalWellnessAgent"].confidence = validated["MentalWellnessAgent"].confidence

-----------------------------------------------------------------------------
(* _calculate_constraint_satisfaction_score on lists of resolved conflicts *)

\* a resolved conflict of the given type as the resolvers leave it
ResolvedOfType(type) == Conflict(type, <<>>, "resolved", ResolverImpact(type))

ListsOver(types, n) ==
    UNION {[1..k -> {ResolvedOfType(t) : t \in types}] : k \in 0..n}

ResolvedListInputs ==
    ListsOver(ConflictTypeSet, MaxMixedResolved)
    \cup ListsOver({"recovery_conflict", "energy_conflict"}, MaxMajorResolved)

InitScore ==
    /\ agent_proposals = DefaultProposals
    /\ user_constraints \in ConstraintInputs
    /\ user_data = NoUserData
    /\ energy_balance = NoEnergyBalance
    /\ energy_conflicts = <<>>
    /\ recovery_priority = NoRecoveryPriority
    /\ resolved_conflicts \in ResolvedListInputs
    /\ conflicts = resolved_conflicts
    /\ pending = <<>>
    /\ UnitStart("constraint_satisfaction_score")

\* return self._calculate_constraint_satisfaction_score(unified_plan, constraints, conflicts_resolved)
CallConstraintSatisfactionScore ==
    /\ UNCHANGED orchestrator_vars
    /\ pc = "constraint_satisfaction_score"
    /\ result' = [returned |-> TRUE,
                  constraint_satisfaction_score |->
                      CalculateConstraintSatisfactionScore(resolved_conflicts)]
    /\ pc' = "returned"
    /\ UNCHANGED <<agent_proposals, input_proposals, validated, user_constraints, user_data,
                   validation_results, energy_balance, energy_conflicts, recovery_priority,
                   conflicts, pending, resolved_conflicts, stages, exception, working_memory,
                   previous_results>>

SpecScore == InitScore /\ [][CallConstraintSatisfactionScore]_vars

\* C15: the constraint satisfaction score is max(0, 1.0 - 0.1 per resolved
\* recovery or energy conflict - 0.05 per other resolved conflict); it lies in
\* [0,1] and is 1.0 only for the empty list.
C15_ConstraintSatisfactionScore ==
    pc = "returned" =>
        LET major == Cardinality({i \in 1..Len(resolved_conflicts) :
                                    resolved_conflicts[i].conflict_type
                                        \in {"recovery_conflict", "energy_conflict"}})
            other == Len(resolved_conflicts) - major
            expected == 100 - 10 * major - 5 * other
        IN  /\ result.constraint_satisfaction_score = IF expected < 0 THEN 0 ELSE expected
            /\ result.constraint_satisfaction_score >= 0
            /\ result.constraint_satisfaction_score <= 100
            /\ result.constraint_satisfaction_score = 100 <=> resolved_conflicts = <<>>

\* eleven major conflicts: the deductions exceed 1.0 and the score is floored
C15_Witness ==
    /\ pc = "returned"
    /\ Len(resolved_conflicts) = 11
    /\ \A i \in 1..Len(resolved_conflicts) :
           resolved_conflicts[i].conflict_type \in {"recovery_conflict", "energy_conflict"}
    /\ result.constraint_satisfaction_score = 0

-----------------------------------------------------------------------------
(* _detect_conflicts on four validated proposals and a constraints map *)

FullPlan == [has |-> TRUE, base |-> "full", d |-> {}]

DetectFitnessInputs ==
    {[EmptyProposal EXCEPT !.energy_demand = e, !.workout_plan = w]
     : e \in {Missing, "low", "high"}, w \in {NoPlan, EmptyDictPlan, FullPlan, BusyPlan}}

DetectNutritionInputs ==
    {[EmptyProposal EXCEPT !.nutritional_adequacy = n, !.budget_utilization = b, !.meal_plan = m]
     : n \in {Missing, "low"}, b \in {NoNum, Num(90), Num(91)}, m \in {NoPlan, BusyPlan}}

DetectSleepInputs ==
    {[EmptyProposal EXCEPT !.recovery_status = r, !.sleep_recommendations = s]
     : r \in {Missing, "poor", "fair"}, s \in {NoPlan, BusyPlan}}

DetectConstraintInputs ==
    {[max_weekly_minutes |-> m] : m \in {NoNum, Num(649), Num(650)}}

InitDetect ==
    /\ \E f \in DetectFitnessInputs, n \in DetectNutritionInputs, sl \in DetectSleepInputs,
          m \in MentalWellnessInputs :
            agent_proposals = ValidatedAll(ProposalsOf(f, n, sl, m))
    /\ user_constraints \in DetectConstraintInputs
    /\ user_data = NoUserData
    /\ energy_balance = NoEnergyBalance
    /\ energy_conflicts = <<>>
    /\ recovery_priority = NoRecoveryPriority
    /\ conflicts = <<>>
    /\ pending = <<>>
    /\ resolved_conflicts = <<>>
    /\ UnitStart("detect_conflicts")

\* conflicts = self._detect_conflicts(agent_proposals, user_constraints)
CallDetectConflicts ==
    /\ UNCHANGED orchestrator_vars
    /\ pc = "detect_conflicts"
    /\ conflicts' = DetectConflicts(agent_proposals, user_constraints)
    /\ pc' = "returned"
    /\ UNCHANGED <<agent_proposals, input_proposals, validated, user_constraints, user_data,
                   validation_results, energy_balance, energy_conflicts, recovery_priority,
                   pending, resolved_conflicts, stages, exception, working_memory,
                   previous_results, result>>

SpecDetect == InitDetect /\ [][CallDetectConflicts]_vars

\* number of records of the given type in the detected list
Detected(type) == Cardinality({i \in 1..Len(conflicts) : conflicts[i].conflict_type = type})

\* C16: _detect_conflicts returns exactly one record for each of the Energy, Time,
\* Budget, Recovery and Nutritional rules whose trigger holds on the proposals it
\* was given, none for a rule whose trigger does not hold (total minutes strictly
\* above max_weekly_minutes, default 600; budget_utilization strictly above 0.9),
\* and leaves the proposals as they were.
C16_DetectionRules ==
    pc = "returned" =>
        LET f == validated["FitnessAgent"]
            n == validated["NutritionAgent"]
            s == validated["SleepAgent"]
            minutes == WeeklyScheduleMinutes(f.workout_plan) + PrepTimeMinutes(n.meal_plan)
            limit == IF user_constraints.max_weekly_minutes.kind = "num"
                     THEN user_constraints.max_weekly_minutes.val ELSE 600
            One(trigger) == IF trigger THEN 1 ELSE 0
        IN  /\ Detected("energy_conflict")
                  = One(f.energy_demand = "high"
                        /\ (n.nutritional_adequacy = "low" \/ s.recovery_status \in {"poor", "fair"}))
            /\ Detected("time_conflict") = One(minutes > limit)
            /\ Detected("budget_conflict") = One(n.budget_utilization.val > 90)
            /\ Detected("recovery_conflict")
                  = One(s.recovery_status = "poor" /\ f.energy_demand = "high")
            /\ Detected("nutritional_conflict")
                  = One(n.nutritional_adequacy = "low" /\ f.energy_demand = "high")
            /\ agent_proposals = validated

\* 600 weekly minutes against the default limit and a budget utilization of 0.9:
\* neither rule fires, while the energy, recovery and nutritional rules do
C16_Witness ==
    /\ pc = "returned"
    /\ user_constraints.max_weekly_minutes = NoNum
    /\ WeeklyScheduleMinutes(validated["FitnessAgent"].workout_plan) = 600
    /\ PrepTimeMinutes(validated["NutritionAgent"].meal_plan) = 0
    /\ validated["NutritionAgent"].budget_utilization = Num(90)
    /\ ConflictTypes(conflicts) = <<"energy_conflict", "recovery_conflict", "nutritional_conflict">>

\* C17: a motivation_conflict is reported exactly when MentalWellness has
\* motivation_level 'low', flags simplification as needed, and at least one of the
\* Fitness, Nutrition and Sleep plans reports complexity 'high'; its affected
\* agents are MentalWellness and exactly the domains reporting high complexity.
C17_MotivationRule ==
    pc = "returned" =>
        LET m == validated["MentalWellnessAgent"]
            complex ==
                {a \in {"FitnessAgent", "NutritionAgent", "SleepAgent"} :
                    PlanComplexity(IF a = "FitnessAgent" THEN validated[a].workout_plan
                                   ELSE IF a = "NutritionAgent" THEN validated[a].meal_plan
                                   ELSE validated[a].sleep_recommendations) = "high"}
            trigger == /\ m.motivation_level = "low"
                       /\ <<"simplification_needed", "True">> \in m.complexity_adjustments.d
                       /\ complex # {}
        IN  /\ Detected("motivation_conflict") = IF trigger THEN 1 ELSE 0
            /\ \A i \in 1..Len(conflicts) :
                   conflicts[i].conflict_type = "motivation_conflict" =>
                       Range(conflicts[i].affected_agents) = complex \cup {"MentalWellnessAgent"}

-----------------------------------------------------------------------------

\* the result of a call that found nothing to resolve: no error, and one
\* contribution per domain, each a full proposal without modifications
FourFullProposals ==
    /\ energy_conflicts = <<>>
    /\ conflicts = <<>>
    /\ result.error = Missing
    /\ Cardinality(result.agent_contributions) = 4
    /\ {c.agent : c \in result.agent_contributions} = AgentSet
    /\ \A c \in result.agent_contributions :
           c.contribution_type = "full_proposal" /\ c.modifications = <<>>

AllFieldsDefaulted == \A a \in AgentSet : input_proposals[a] = EmptyProposal

-----------------------------------------------------------------------------
(* _determine_balance_status on scores in [0,100], given in tenths *)

BalanceScoreInputs ==
    {[NoEnergyBalance EXCEPT !.energy_demand = d, !.energy_availability = a,
                             !.recovery_capacity = c]
     : d \in {0, 300, 500, 501, 1000},
       a \in {0, 299, 300, 700, 701, 702, 1000},
       c \in {0, 299, 300, 301, 500, 700, 701, 1000}}

InitBalance ==
    /\ agent_proposals = DefaultProposals
    /\ user_constraints \in ConstraintInputs
    /\ user_data = NoUserData
    /\ energy_balance \in BalanceScoreInputs
    /\ energy_conflicts = <<>>
    /\ recovery_priority = NoRecoveryPriority
    /\ conflicts = <<>>
    /\ pending = <<>>
    /\ resolved_conflicts = <<>>
    /\ UnitStart("balance_status")

\* balance_status = self._determine_balance_status(energy_demand, energy_availability,
\*                                                 recovery_capacity)
CallDetermineBalanceStatus ==
    /\ UNCHANGED orchestrator_vars
    /\ pc = "balance_status"
    /\ energy_balance' =
           [energy_balance EXCEPT !.balance_status =
               DetermineBalanceStatus(energy_balance.energy_demand,
                                      energy_balance.energy_availability,
                                      energy_balance.recovery_capacity)]
    /\ pc' = "returned"
    /\ UNCHANGED <<agent_proposals, input_proposals, validated, user_constraints, user_data,
                   validation_results, energy_conflicts, recovery_priority, conflicts, pending,
                   resolved_conflicts, stages, exception, working_memory, previous_results,
                   result>>

SpecBalance == InitBalance /\ [][CallDetermineBalanceStatus]_vars

\* C20: balance_status is 'deficit' exactly when availability - demand < -20 or
\* recovery_capacity < 30, 'surplus' exactly when it is not a deficit and
\* availability - demand > 20 and recovery_capacity > 70, and 'balanced'
\* otherwise; a recovery_capacity below 30 gives 'deficit' even with an energy
\* surplus.
C20_BalanceStatus ==
    pc = "returned" =>
        LET balance == energy_balance.energy_availability - energy_balance.energy_demand
            deficit == balance < -200 \/ energy_balance.recovery_capacity < 300
            surplus == ~deficit /\ balance > 200 /\ energy_balance.recovery_capacity > 700
        IN  /\ energy_balance.balance_status \in {"deficit", "surplus", "balanced"}
            /\ energy_balance.balance_status = "deficit" <=> deficit
            /\ energy_balance.balance_status = "surplus" <=> surplus
            /\ energy_balance.balance_status = "balanced" <=> (~deficit /\ ~surplus)

\* an energy surplus of 100 points with a recovery capacity of 29.9
C20_Witness ==
    /\ pc = "returned"
    /\ energy_balance.energy_availability - energy_balance.energy_demand = 1000
    /\ energy_balance.recovery_capacity = 299
    /\ energy_balance.balance_status = "deficit"

-----------------------------------------------------------------------------
(* WellnessWorkflowOrchestrator.execute_workflow: the producers are run or   *)
(* served from the cache, the coordinator is called on the dict of their     *)
(* results, and the final response is built.  The user, the age and the      *)
(* constraints are the same in every run, so an agent's cache key is a       *)
(* function of its name.  A Python dict held in two places is one object:    *)
(* the in-memory cache keeps the producer's dict itself, Redis keeps a JSON  *)
(* string of it.  self.agents holds WellnessAgent subclasses ("agent": they  *)
(* have .domain and process_wellness_request) or the stand-in of the         *)
(* verification script ("stand_in": only process_wellness_request).          *)

\* number of execute_workflow calls made on the same shared state
MaxRuns == 2

\* DatabaseManager defines no log_system_event, so the call at the end of
\* ErrorManager.handle_error raises AttributeError before anything is returned
HandleErrorRaises ==
    LET DatabaseManagerHasLogSystemEvent == FALSE
    IN  ~DatabaseManagerHasLogSystemEvent

\* the fallback structure parse_wellness_response returns on a JSONDecodeError
ParseWellnessResponseFallback ==
    [EmptyProposal EXCEPT !.error = "JSON parsing failed", !.confidence = Num(0),
                          !.reasoning = "Failed to parse structured response"]

\* outcome of agent.process_wellness_request: the parsed proposal, the fallback
\* for unparseable output, or the outcome of its except clause (handle_error,
\* then the standardized error proposal)
ProcessWellnessRequest(kind, a) ==
    LET \* proposals parsed from a producer's JSON output: parse_wellness_response
        \* has put confidence into [0, 1] and filled in reasoning
        ProducerProposals ==
            IF a = "FitnessAgent"
            THEN {[EmptyProposal EXCEPT !.confidence = Num(80), !.reasoning = "r",
                                        !.energy_demand = "high"]}
            ELSE IF a = "NutritionAgent"
            THEN {[EmptyProposal EXCEPT !.confidence = Num(80), !.reasoning = "r",
                                        !.budget_utilization = Num(95), !.meal_plan = BusyPlan]}
            ELSE IF a = "SleepAgent"
            THEN {[EmptyProposal EXCEPT !.confidence = Num(80), !.reasoning = "r",
                                        !.recovery_status = s] : s \in {"good", "poor"}}
            ELSE {[EmptyProposal EXCEPT !.confidence = Num(50), !.reasoning = "r"]}
        \* the ways a producer's run is taken to end: its LLM output parses, does
        \* not parse, or something raises inside the try block
        ProducerRuns ==
            IF a = "FitnessAgent" THEN {"parsed", "unparseable", "exception"}
            ELSE IF a = "NutritionAgent" THEN {"parsed", "unparseable"}
            ELSE IF a = "SleepAgent" THEN {"parsed", "exception"}
            ELSE {"parsed"}
        ErrorProposal == [EmptyProposal EXCEPT !.is_error = TRUE, !.confidence = Num(0),
                                               !.reasoning = "agent error"]
    IN  IF kind = "stand_in"
        THEN {[state |-> "raised", error |-> "ValueError"]}
        ELSE {[state |-> "returned", value |-> p] :
                  p \in {q \in ProducerProposals : "parsed" \in ProducerRuns}}
             \cup {[state |-> "returned", value |-> ParseWellnessResponseFallback] :
                       r \in ProducerRuns \cap {"unparseable"}}
             \cup {IF HandleErrorRaises
                    THEN [state |-> "raised", error |-> "AttributeError"]
                    ELSE [state |-> "returned", value |-> ErrorProposal] :
                       r \in ProducerRuns \cap {"exception"}}

\* the proposal an entry of the cache holds.  Redis: json.loads of the stored
\* text, a new dict with the content that was dumped.  In memory: the dict
\* object itself, which until the task's result is gathered is the task's
\* result and from then on the value in the proposals dict the coordinator
\* works on
CacheValue(a) ==
    LET JsonLoads(data) == data.text
        CachedObject == IF results[a].state = "returned" THEN results[a].value
                        ELSE agent_proposals[a]
    IN  IF cache[a].kind = "json" THEN JsonLoads(cache[a].data) ELSE CachedObject

InitWorkflow ==
    /\ agent_proposals = [a \in AgentSet |-> AbsentProposal]
    /\ input_proposals = agent_proposals
    /\ user_constraints \in ConstraintInputs
    /\ user_data = NoUserData
    /\ working_memory = InitialWorkingMemory
    /\ previous_results = <<>>
    /\ pc = "idle"
    /\ validated = agent_proposals
    /\ validation_results = NoValidation
    /\ energy_balance = NoEnergyBalance
    /\ energy_conflicts = <<>>
    /\ recovery_priority = NoRecoveryPriority
    /\ conflicts = <<>>
    /\ pending = <<>>
    /\ resolved_conflicts = <<>>
    /\ stages = {}
    /\ exception = Missing
    /\ result = NoResult
    /\ wf_pc = "idle"
    /\ self_agents \in {[a \in AgentSet |-> "agent"],
                        [a \in AgentSet |-> IF a = "FitnessAgent" THEN "stand_in" ELSE "agent"]}
    /\ cache_backend \in {"redis", "memory", "disabled"}
    /\ cache = [a \in AgentSet |-> [kind |-> "none"]]
    /\ results = [a \in AgentSet |-> [state |-> "none"]]
    /\ produced = [a \in AgentSet |-> AbsentProposal]
    /\ executed = [a \in AgentSet |-> [state |-> "none"]]
    /\ runs = 0
    /\ workflow_result = [state |-> "none"]

coordinator_vars == <<pc, input_proposals, validated, user_constraints, user_data,
                      validation_results, energy_balance, energy_conflicts, recovery_priority,
                      conflicts, pending, resolved_conflicts, stages, exception, working_memory,
                      previous_results, result>>

\* execute_workflow up to the call of _run_agents: the shared state is looked
\* up, and 'raise ValueError(f"Shared state {state_id} not found")' if missing
ExecuteWorkflow ==
    /\ wf_pc \in {"idle", "returned", "raised"}
    /\ runs < MaxRuns
    /\ runs' = runs + 1
    /\ executed' = [a \in AgentSet |-> [state |-> "none"]]
    /\ \E found \in BOOLEAN :
        IF found
        THEN /\ wf_pc' = "run_agents"
             /\ workflow_result' = [state |-> "none"]
        ELSE /\ wf_pc' = "raised"
             /\ workflow_result' = [state |-> "raised",
                                    error |-> "ValueError: shared state not found"]
    /\ UNCHANGED <<agent_proposals, self_agents, cache_backend, cache, results, produced>>
    /\ UNCHANGED coordinator_vars

\* the loop of _run_agents over self.agents: 'agent.domain' is read for the cache
\* key, a hit goes into the new proposals dict and a miss queues a task
RunAgents ==
    LET HasDomain(kind) == kind = "agent"
        \* 'cached_result = cache_manager.get(cache_key)' followed by 'if cached_result'
        CacheHit(a) == cache_backend # "disabled" /\ cache[a].kind # "none"
    IN  /\ wf_pc = "run_agents"
        /\ IF \E a \in AgentSet : ~HasDomain(self_agents[a])
           THEN /\ wf_pc' = "raised"
                /\ workflow_result' = [state |-> "raised", error |-> "AttributeError"]
                /\ UNCHANGED agent_proposals
           ELSE /\ agent_proposals' = [a \in AgentSet |->
                                          IF CacheHit(a) THEN CacheValue(a) ELSE AbsentProposal]
                /\ wf_pc' = IF \E a \in AgentSet : ~CacheHit(a) THEN "gather" ELSE "coordinate"
                /\ UNCHANGED workflow_result
        /\ UNCHANGED <<self_agents, cache_backend, cache, results, produced, executed, runs>>
        /\ UNCHANGED coordinator_vars

\* one task of asyncio.gather runs to its end: _execute_single_agent calls the
\* producer, stores a result that is not flagged is_error, and on an exception
\* runs its except clause.  The tasks of a run are the agents whose lookup
\* missed: they have no entry in the proposals dict yet
ExecuteSingleAgent(a) ==
    LET \* the except clause: handle_error, then the error proposal
        Except == IF HandleErrorRaises
                  THEN [state |-> "raised", error |-> "AttributeError"]
                  ELSE [state |-> "returned",
                        value |-> [EmptyProposal EXCEPT !.is_error = TRUE, !.confidence = Num(0),
                                                        !.reasoning = "Agent execution failed"]]
        \* what the task hands to asyncio.gather
        TaskResult(outcome) == IF outcome.state = "raised" THEN Except ELSE outcome
        \* 'if result and not result.get('is_error')': every result is a non-empty dict
        StoredInCache(outcome) == outcome.state = "returned" /\ ~outcome.value.is_error
        \* CacheManager.set: Redis keeps json.dumps(value), the fallback dict the value
        JsonDumps(value) == [text |-> value]
        CacheSet(value) ==
            IF cache_backend = "disabled" THEN [kind |-> "none"]
            ELSE IF cache_backend = "redis" THEN [kind |-> "json", data |-> JsonDumps(value)]
            ELSE [kind |-> "object"]
    IN  /\ wf_pc = "gather"
        /\ ~agent_proposals[a].present
        /\ results[a].state = "none"
        /\ \E outcome \in ProcessWellnessRequest(self_agents[a], a) :
            /\ results' = [results EXCEPT ![a] = TaskResult(outcome)]
            /\ executed' = [executed EXCEPT ![a] = outcome]
            /\ IF StoredInCache(outcome)
               THEN /\ cache' = [cache EXCEPT ![a] = CacheSet(outcome.value)]
                    /\ produced' = [produced EXCEPT ![a] = IF cache'[a].kind = "none" THEN @
                                                          ELSE outcome.value]
               ELSE UNCHANGED <<cache, produced>>
        /\ UNCHANGED <<agent_proposals, wf_pc, self_agents, cache_backend, runs, workflow_result>>
        /\ UNCHANGED coordinator_vars

\* gather has every result: they are zipped with the names into proposals, a
\* task that ended in an exception gets the fallback error entry
Gather ==
    LET Queued == {a \in AgentSet : ~agent_proposals[a].present}
        CrashedProposal(message) ==
            [EmptyProposal EXCEPT !.is_error = TRUE, !.error = message, !.confidence = Num(0)]
    IN  /\ wf_pc = "gather"
        /\ \A a \in Queued : results[a].state # "none"
        /\ agent_proposals' = [a \in AgentSet |->
                                  IF a \notin Queued THEN agent_proposals[a]
                                  ELSE IF results[a].state = "raised"
                                  THEN CrashedProposal(results[a].error)
                                  ELSE results[a].value]
        /\ results' = [a \in AgentSet |-> [state |-> "none"]]
        /\ wf_pc' = "coordinate"
        /\ UNCHANGED <<self_agents, cache_backend, cache, produced, executed, runs, workflow_result>>
        /\ UNCHANGED coordinator_vars

\* self.coordinator.coordinate_agent_proposals(agent_proposals, constraints, state_data)
Coordinate ==
    /\ wf_pc = "coordinate"
    /\ pc = "idle"
    /\ pc' = "start"
    /\ input_proposals' = agent_proposals
    /\ validated' = agent_proposals
    /\ validation_results' = NoValidation
    /\ energy_balance' = NoEnergyBalance
    /\ energy_conflicts' = <<>>
    /\ recovery_priority' = NoRecoveryPriority
    /\ conflicts' = <<>>
    /\ pending' = <<>>
    /\ resolved_conflicts' = <<>>
    /\ stages' = {}
    /\ exception' = Missing
    /\ result' = NoResult
    /\ UNCHANGED <<agent_proposals, user_constraints, user_data, working_memory, previous_results>>
    /\ UNCHANGED orchestrator_vars

\* the coordinator has returned: the final response is built and the call ends
CompleteWorkflow ==
    LET \* the dict execute_workflow builds from the coordinator's result
        final_response ==
            [success |-> TRUE, state_id |-> "state", plan |-> result,
             metadata |-> [agents_involved |-> {a \in AgentSet : agent_proposals[a].present},
                           coordination_confidence |-> result.confidence]]
        \* the value execute_workflow returns: its body ends after the last log
        \* call, without a return statement
        Returned == [state |-> "returned", isNone |-> TRUE]
    IN  /\ wf_pc = "coordinate"
        /\ pc = "done"
        /\ workflow_result' = Returned
        /\ wf_pc' = "returned"
        /\ pc' = "idle"
        /\ UNCHANGED <<agent_proposals, input_proposals, validated, user_constraints, user_data,
                       validation_results, energy_balance, energy_conflicts, recovery_priority,
                       conflicts, pending, resolved_conflicts, stages, exception, working_memory,
                       previous_results, result>>
        /\ UNCHANGED <<self_agents, cache_backend, cache, results, produced, executed, runs>>

\* the TTL of a Redis entry (one hour) runs out between two runs; the in-memory
\* fallback enforces no TTL
Expire(a) ==
    /\ wf_pc \in {"idle", "returned", "raised"}
    /\ cache_backend = "redis"
    /\ cache[a].kind = "json"
    /\ cache' = [cache EXCEPT ![a] = [kind |-> "none"]]
    /\ produced' = [produced EXCEPT ![a] = AbsentProposal]
    /\ UNCHANGED <<agent_proposals, wf_pc, self_agents, cache_backend, results, executed, runs,
                   workflow_result>>
    /\ UNCHANGED coordinator_vars

NextWorkflow ==
    \/ ExecuteWorkflow
    \/ RunAgents
    \/ \E a \in AgentSet : ExecuteSingleAgent(a)
    \/ Gather
    \/ Coordinate
    \/ Validate
    \/ AssessEnergy
    \/ Prioritize
    \/ Detect
    \/ ResolveNext
    \/ Finish
    \/ CompleteWorkflow
    \/ \E a \in AgentSet : Expire(a)

SpecWorkflow == InitWorkflow /\ [][NextWorkflow]_vars

-----------------------------------------------------------------------------
(* Properties of the workflow *)

\* C21: across any sequence of execute_workflow runs, the proposal the cache
\* holds for an agent equals what the producer returned when the entry was
\* stored: validation defaults, recovery prioritization and conflict resolution
\* never change a cached proposal, with Redis and with the in-memory fallback.
C21_CachedProposalUnchanged ==
    \A a \in AgentSet : cache[a].kind # "none" => CacheValue(a) = produced[a]

\* C22: an execute_workflow call that finds its shared state and completes
\* returns the final response (success, state_id, plan, metadata), never None.
C22_CompletedRunReturnsResponse ==
    workflow_result.state = "returned" => ~workflow_result.isNone

\* C23: when a producer's process_wellness_request raises, no exception leaves
\* _run_agents or execute_workflow; the proposals handed to the coordinator
\* have an entry for each of the four agents, the failing agent's entry has
\* is_error = true and confidence 0.0, and the other entries are the results
\* the agents returned.
C23_ProducerFailureContained ==
    /\ workflow_result.state = "raised" =>
           workflow_result.error = "ValueError: shared state not found"
    /\ (wf_pc = "coordinate" /\ pc = "idle") =>
           \A a \in AgentSet :
               /\ agent_proposals[a].present
               /\ executed[a].state = "raised" =>
                      agent_proposals[a].is_error /\ agent_proposals[a].confidence = Num(0)
               /\ executed[a].state = "returned" => agent_proposals[a] = executed[a].value

\* C30: only successful producer results are stored in the proposal cache: a
\* result that reports a failure (is_error, or the fallback with an 'error'
\* field and confidence 0.0 returned for unparseable output) is never stored,
\* so the next run executes that producer again.
C30_OnlySuccessesCached ==
    \A a \in AgentSet :
        cache[a].kind # "none" => ~produced[a].is_error /\ produced[a].error = Missing

-----------------------------------------------------------------------------
(* SleepAgent.optimize_sleep_schedule.  A clock time 'HH:MM' is the record   *)
(* of its two numbers; minutes from midnight are integers, negative for the  *)
(* evening before; the sleep debt is given in minutes and                    *)
(* sleep_duration_hours in tenths of an hour.                                *)

\* hours, minutes = map(int, time_str.split(':')); hours * 60 + minutes
TimeStrToMinutes(time_str) == time_str.hours * 60 + time_str.minutes

OptimizeSleepSchedule(ud, constraints) ==
    LET sleep_need_baseline == 480
        \* f"{(minutes // 60) % 24:02d}:{minutes % 60:02d}"
        MinutesToTimeStr(minutes) == [hours |-> (minutes \div 60) % 24, minutes |-> minutes % 60]
        \* chronotype_adjustments.get(chronotype, chronotype_adjustments['neutral'])
        ChronotypeShift == IF ud.chronotype = "early" THEN -30
                           ELSE IF ud.chronotype = "late" THEN 30 ELSE 0
        \* min(current_debt * 0.5, 2.0) hours, for a debt given in minutes
        debt_recovery == IF ud.current_debt > 0 THEN Min(ud.current_debt \div 2, 120) ELSE 0
        \* round(minutes / 60, 1), in tenths of an hour
        RoundHours(minutes) == (minutes * 10 + 30) \div 60
        sleep_need == sleep_need_baseline + debt_recovery
        wanted_wake == TimeStrToMinutes(ud.preferred_wake_time) + ChronotypeShift
        earliest_wake_minutes == TimeStrToMinutes(constraints.work_schedule.earliest_start)
        latest_bedtime_minutes ==
            TimeStrToMinutes(constraints.social_schedule.latest_reasonable_bedtime)
        wake1 == IF wanted_wake < earliest_wake_minutes THEN earliest_wake_minutes ELSE wanted_wake
        bed1 == wake1 - sleep_need
        optimal_bedtime_minutes == IF bed1 > latest_bedtime_minutes THEN latest_bedtime_minutes ELSE bed1
        preferred_wake_minutes == IF bed1 > latest_bedtime_minutes
                                  THEN latest_bedtime_minutes + sleep_need ELSE wake1
    IN  [returned |-> TRUE,
         bedtime |-> MinutesToTimeStr(optimal_bedtime_minutes),
         wake_time |-> MinutesToTimeStr(preferred_wake_minutes),
         sleep_duration_hours |-> RoundHours(preferred_wake_minutes - optimal_bedtime_minutes),
         chronotype_considered |-> ud.chronotype,
         debt_recovery_time |-> RoundHours(debt_recovery),
         constraints_applied |-> [work_schedule_respected |-> TRUE,
                                  social_constraints_respected |-> TRUE,
                                  chronotype_accommodated |-> TRUE]]

\* user preferences, chronotype and the debt _calculate_sleep_debt finds in the
\* history; the work and social schedule of the constraints
InitSleep ==
    LET Clock(h, m) == [hours |-> h, minutes |-> m]
        SleepUserInputs ==
            {[preferred_wake_time |-> w, chronotype |-> c, current_debt |-> d]
             : w \in {Clock(5, 0), Clock(6, 30), Clock(9, 15)},
               c \in {"early", "neutral", "late"},
               d \in {0, 60, 360}}
        SleepConstraintInputs ==
            {[work_schedule |-> [earliest_start |-> e],
              social_schedule |-> [latest_reasonable_bedtime |-> l]]
             : e \in {Clock(6, 0), Clock(7, 0), Clock(8, 30)},
               l \in {Clock(22, 0), Clock(23, 30), Clock(0, 30)}}
    IN  /\ agent_proposals = DefaultProposals
        /\ user_constraints \in SleepConstraintInputs
        /\ user_data \in SleepUserInputs
        /\ energy_balance = NoEnergyBalance
        /\ energy_conflicts = <<>>
        /\ recovery_priority = NoRecoveryPriority
        /\ conflicts = <<>>
        /\ pending = <<>>
        /\ resolved_conflicts = <<>>
        /\ UnitStart("optimize_sleep_schedule")

\* schedule = agent.optimize_sleep_schedule(user_data, constraints)
CallOptimizeSleepSchedule ==
    /\ UNCHANGED orchestrator_vars
    /\ pc = "optimize_sleep_schedule"
    /\ result' = OptimizeSleepSchedule(user_data, user_constraints)
    /\ pc' = "returned"
    /\ UNCHANGED <<agent_proposals, input_proposals, validated, user_constraints, user_data,
                   validation_results, energy_balance, energy_conflicts, recovery_priority,
                   conflicts, pending, resolved_conflicts, stages, exception, working_memory,
                   previous_results>>

SpecSleep == InitSleep /\ [][CallOptimizeSleepSchedule]_vars

\* C24: the schedule optimize_sleep_schedule returns honours the constraints it
\* reports as respected: wake_time is not earlier than
\* work_schedule.earliest_start, bedtime (on the evening before the wake time)
\* is not later than social_schedule.latest_reasonable_bedtime, and
\* sleep_duration_hours is at least 7.0.  A clock time of the night is counted
\* from the midnight of the wake day: evening times lie before that midnight.
C24_ScheduleHonoursConstraints ==
    LET NightMinutes(time_str) ==
            IF time_str.hours >= 12 THEN TimeStrToMinutes(time_str) - 1440
            ELSE TimeStrToMinutes(time_str)
    IN  pc = "returned" =>
            /\ TimeStrToMinutes(result.wake_time)
                   >= TimeStrToMinutes(user_constraints.work_schedule.earliest_start)
            /\ NightMinutes(result.bedtime)
                   <= NightMinutes(user_constraints.social_schedule.latest_reasonable_bedtime)
            /\ result.sleep_duration_hours >= 70

-----------------------------------------------------------------------------
(* Properties of conflict resolution *)

\* C25: every conflict resolved by _resolve_conflicts_with_optimization ends
\* with at least one trade-off string in trade_offs_made and a
\* confidence_impact between -0.2 and -0.05, so a resolution that lowers
\* confidences also records what was traded off.
C25_ResolutionRecordsTradeOff ==
    \A i \in 1..Len(resolved_conflicts) :
        /\ resolved_conflicts[i].trade_offs_made # <<>>
        /\ resolved_conflicts[i].confidence_impact \in -20..-5

\* C26: the conflicts detected after recovery prioritization has been applied
\* are remaining conflicts: their types are among the types _detect_conflicts
\* reports on the validated proposals before prioritization, so applying the
\* recovery decision never introduces a conflict.
C26_PrioritizationAddsNoConflict ==
    "conflict_detection" \in stages =>
        Range(ConflictTypes(conflicts))
            \subseteq Range(ConflictTypes(DetectConflicts(validated, user_constraints)))

\* C27: resolution resolves what was detected: once
\* _resolve_conflicts_with_optimization has processed every detected conflict,
\* _detect_conflicts on the modified proposals with the same constraints
\* reports no conflict of a type that was resolved.
C27_ResolvedConflictsAreGone ==
    (pc = "resolve" /\ pending = <<>>) =>
        Range(ConflictTypes(DetectConflicts(agent_proposals, user_constraints)))
            \cap Range(ConflictTypes(resolved_conflicts)) = {}

\* the level of fitness_proposal.get('energy_demand', 'medium')
EnergyLevel(p) ==
    LET demand == Get(p.energy_demand, "medium")
    IN  IF demand = "high" THEN 3 ELSE IF demand = "medium" THEN 2 ELSE 1

\* C28: in one coordinate_agent_proposals pass, over recovery prioritization
\* and all resolvers together, Fitness energy_demand never rises and is at
\* most one level below its value after validation: once it has been stepped
\* down, no later step of the pass lowers it again.
C28_EnergyDemandOneStepDown ==
    [][/\ EnergyLevel(agent_proposals'["FitnessAgent"]) <= EnergyLevel(agent_proposals["FitnessAgent"])
       /\ EnergyLevel(validated'["FitnessAgent"]) - EnergyLevel(agent_proposals'["FitnessAgent"]) \in {0, 1}]_vars

\* a recovery, an energy and a nutritional conflict were resolved one after the
\* other on a high demand with low nutritional adequacy: the first resolver
\* stepped the demand down to medium and the later ones left it there
C28_Witness ==
    /\ pc = "done"
    /\ {"recovery_conflict", "energy_conflict", "nutritional_conflict"} \subseteq ResolvedTypes
    /\ validated["FitnessAgent"].energy_demand = "high"
    /\ validated["NutritionAgent"].nutritional_adequacy = "low"
    /\ agent_proposals["FitnessAgent"].energy_demand = "medium"

\* a resolver changed the agent's proposal or its plan (the confidence, which
\* _apply_conflict_resolution lowers, is not counted); without recovery
\* prioritization the proposals before resolution are the validated ones
ChangedByResolver(a) ==
    [agent_proposals[a] EXCEPT !.confidence = validated[a].confidence] # validated[a]

\* C29: in the plan _generate_unified_plan builds after conflict resolution, an
\* agent whose proposal a resolver changed is reported in agent_contributions
\* with contribution_type 'modified_proposal' and a non-empty modifications
\* list, and an agent no resolver changed with 'full_proposal' and no
\* modifications.
C29_ContributionsReportModifications ==
    (pc = "done" /\ exception = Missing /\ "conflict_resolution" \in stages
     /\ recovery_priority.isNone) =>
        \A c \in result.agent_contributions :
            IF ChangedByResolver(c.agent)
            THEN c.contribution_type = "modified_proposal" /\ c.modifications # <<>>
            ELSE c.contribution_type = "full_proposal" /\ c.modifications = <<>>

====
